---------------------------- MODULE Spec2Model ----------------------------
(***************************************************************************)
(* Asset Graph Projection & Correlation Engine (stanezil/gandiva-xspm).    *)
(*                                                                         *)
(* The module models, statement by statement, the request handlers of the  *)
(* backend: the graph rebuilds of neo4j_asset_resource.py, the             *)
(* relationship builder, the KEV correlation and the tabular PII scans.    *)
(* Python strings are TLA+ strings; str.lower() / str.upper() are computed *)
(* by LowerTable over the strings the model uses.  Python values carry a   *)
(* type tag (t), because clean_value dispatches on the value's type.       *)
(***************************************************************************)
EXTENDS Integers, Sequences, FiniteSets, TLC

(***************************************************************************)
(* Bounds of the model.                                                    *)
(***************************************************************************)
MaxDocs == 2        \* documents per source collection
MaxCalls == 2       \* handler calls issued by one sequential caller

Procs == {1, 2}     \* concurrent request workers

(***************************************************************************)
(* Strings.                                                                *)
(***************************************************************************)
\* Every string of the model that holds an upper-case character, with its
\* lower-cased and upper-cased form.  Strings without one are left alone by
\* str.lower(); strings that are all upper-case are left alone by upper().
LowerTable ==
    << <<"VulnerabilityID", "vulnerabilityid", "VULNERABILITYID">>,
       <<"vulnerability_id", "vulnerability_id", "VULNERABILITY_ID">>,
       <<"Severity", "severity", "SEVERITY">>,
       <<"PkgName", "pkgname", "PKGNAME">>,
       <<"CVE-1", "cve-1", "CVE-1">>,
       <<"cve-1", "cve-1", "CVE-1">>,
       <<"CVE-2", "cve-2", "CVE-2">>,
       <<"cve-2", "cve-2", "CVE-2">>,
       <<"HIGH", "high", "HIGH">>,
       <<"high", "high", "HIGH">>,
       <<"Medium", "medium", "MEDIUM">>,
       <<"low", "low", "LOW">>,
       <<"Foo", "foo", "FOO">>,
       <<"Img-A", "img-a", "IMG-A">>,
       <<"Repo", "repo", "REPO">>,
       <<"EC2", "ec2", "EC2">>,
       <<"S3 Bucket", "s3 bucket", "S3 BUCKET">>,
       <<"Name", "name", "NAME">>,
       <<"Web", "web", "WEB">>,
       <<"Acme", "acme", "ACME">>,
       <<"CWE-7", "cwe-7", "CWE-7">>,
       <<"cveID", "cveid", "CVEID">>,
       <<"vendorProject", "vendorproject", "VENDORPROJECT">>,
       <<"Source", "source", "SOURCE">>,
       <<"AbC", "abc", "ABC">>,
       <<"ABC", "abc", "ABC">>,
       <<"abc", "abc", "ABC">>,
       <<"web", "web", "WEB">>,
       <<"2024-01-01T00:00:00", "2024-01-01t00:00:00", "2024-01-01T00:00:00">>,
       <<"1E+2", "1e+2", "1E+2">> >>

TableHas(s) == \E i \in 1..Len(LowerTable) : LowerTable[i][1] = s

TableRow(s) == LowerTable[CHOOSE i \in 1..Len(LowerTable) : LowerTable[i][1] = s]

\* str.lower()
Lower(s) == IF TableHas(s) THEN TableRow(s)[2] ELSE s

\* str.upper()
Upper(s) == IF TableHas(s) THEN TableRow(s)[3] ELSE s

(***************************************************************************)
(* Typed values.                                                           *)
(***************************************************************************)
VStr(s) == [t |-> "str", v |-> s]
VInt(n) == [t |-> "int", v |-> n]
VBool(b) == [t |-> "bool", v |-> b]
VNull == [t |-> "null"]
VList(q) == [t |-> "list", v |-> q]
VDict(d) == [t |-> "dict", v |-> d]
\* A float, by its repr() text.
VFloat(r) == [t |-> "float", v |-> r]
\* A value of any other type (a Decimal, bytes, ...), by its str() text.
VOther(text) == [t |-> "other", v |-> text]
\* A datetime, by its isoformat() text; an ObjectId, by its str() text.
VDateTime(iso) == [t |-> "datetime", v |-> iso]
VObjectId(hex) == [t |-> "oid", v |-> hex]
\* A str holding JSON text, by the (lower-cased) document the text denotes.
VJsonText(doc) == [t |-> "jsonstr", v |-> doc]

\* dict.get(key, default)
Get(d, k, default) == IF k \in DOMAIN d THEN d[k] ELSE default

\* str(ObjectId): the hex text of the k-th id the document store issued.
OidHex(k) == "oid" \o ToString(k)

\* str(uuid.uuid4()): the text of the n-th identifier worker p draws.
Uuid4(p, n) == "uuid" \o ToString(p) \o "-" \o ToString(n)

(***************************************************************************)
(* Canonicalizer (neo4j_asset_resource.py).                                *)
(***************************************************************************)
\* json.dumps(value, cls=DateTimeEncoder): the JSON document written.  The
\* encoder's default() turns a datetime into its isoformat() text and an
\* ObjectId into its str() text.
RECURSIVE DateTimeEncoder(_)
DateTimeEncoder(x) ==
    CASE x.t = "list" -> VList([i \in 1..Len(x.v) |-> DateTimeEncoder(x.v[i])])
      [] x.t = "dict" -> VDict([k \in DOMAIN x.v |-> DateTimeEncoder(x.v[k])])
      [] x.t \in {"datetime", "oid"} -> VStr(x.v)
      [] OTHER -> x

\* str.lower() of a JSON text: every key and every string in it is lower-cased.
RECURSIVE LowerJsonText(_)
LowerJsonText(x) ==
    CASE x.t = "list" -> VList([i \in 1..Len(x.v) |-> LowerJsonText(x.v[i])])
      [] x.t = "dict" ->
            VDict([ck \in {Lower(k) : k \in DOMAIN x.v} |->
                     LowerJsonText(x.v[CHOOSE k \in DOMAIN x.v : Lower(k) = ck])])
      [] x.t = "str" -> VStr(Lower(x.v))
      [] OTHER -> x

\* convert_to_lowercase(json.dumps(value, cls=DateTimeEncoder))
DumpsLower(value) == VJsonText(LowerJsonText(DateTimeEncoder(value)))

\* A clean_value that turns everything but a string into its lower-cased
\* text.
clean_value_as_text(value) ==
    IF value.t = "str" THEN VStr(Lower(value.v))
    ELSE IF value.t = "null" THEN VStr("none")
    ELSE IF value.t = "bool" THEN VStr(IF value.v THEN "true" ELSE "false")
    ELSE IF value.t = "int" THEN VStr(ToString(value.v))
    ELSE VStr("text")

clean_value(value) ==
    IF value.t \in {"list", "dict"} THEN DumpsLower(value)
    ELSE IF value.t = "datetime" THEN VStr(value.v)
    ELSE IF value.t = "oid" THEN VStr(value.v)
    ELSE IF value.t = "str" THEN VStr(Lower(value.v))
    ELSE IF value.t = "jsonstr" THEN VJsonText(LowerJsonText(value.v))
    ELSE IF value.t \in {"int", "float", "bool"} THEN value
    ELSE IF value.t = "null" THEN value
    ELSE VStr(Lower(value.v))

prepare_node_properties(data_dict) ==
    LET keys == {k \in DOMAIN data_dict : k # "_id"}
    IN  [ck \in {Lower(k) : k \in keys} |->
            clean_value(data_dict[CHOOSE k \in keys : Lower(k) = ck])]

(***************************************************************************)
(* Source collections of the document store.                               *)
(***************************************************************************)
\* Nested findings of a container scan (Trivy's field names, and one record
\* that carries its identifier under the key the KEV rebuild matches on).
VulnHigh == [VulnerabilityID |-> VStr("CVE-1"), Severity |-> VStr("HIGH"),
             PkgName |-> VStr("Foo")]
VulnAltKey == [vulnerability_id |-> VStr("cve-1"), Severity |-> VStr("low")]
VulnMedium == [VulnerabilityID |-> VStr("CVE-2"), Severity |-> VStr("Medium")]

DockerDocMenu ==
    { [image_uri |-> VStr("Img-A"), repository |-> VStr("Repo")],
      [image_uri |-> VStr("Img-A"), repository |-> VStr("Repo"),
       vulnerabilities |-> << [Target |-> VStr("Img-A"),
                               Vulnerabilities |-> <<VulnHigh, VulnAltKey>>] >>],
      [image_uri |-> VStr("img-b"),
       vulnerabilities |-> << [Target |-> VStr("img-b")],
                              [Target |-> VStr("img-b"),
                               Vulnerabilities |-> <<VulnMedium>>] >>] }

KevDocMenu ==
    { [cveID |-> VStr("CVE-1"), vendorProject |-> VStr("Acme"),
       cwes |-> VList(<<VStr("CWE-7")>>), Source |-> VStr("Web")],
      [vendorProject |-> VStr("Acme")] }

AssetDocMenu ==
    { [resource_type |-> VStr("EC2"), Name |-> VStr("Web")],
      [resource_type |-> VStr("S3 Bucket")],
      [Name |-> VStr("Web")] }

S3FindingMenu ==
    { [criticality |-> VStr("HIGH"), bucket_name |-> VStr("Img-A"),
       compliance_standards |-> VList(<<VStr("CWE-7")>>)],
      [criticality |-> VStr("low"), bucket_name |-> VStr("img-b")] }

\* The document store gives every document of a collection its own _id.
WithIds(bodies) ==
    [i \in 1..Len(bodies) |-> ("_id" :> VObjectId(OidHex(i))) @@ bodies[i]]

Collections(menu) ==
    {WithIds(b) : b \in UNION {[1..n -> menu] : n \in 0..MaxDocs}}

Families == {"docker", "kev", "asset", "s3"}

Menu(fam) ==
    CASE fam = "docker" -> DockerDocMenu
      [] fam = "kev" -> KevDocMenu
      [] fam = "asset" -> AssetDocMenu
      [] fam = "s3" -> S3FindingMenu

(***************************************************************************)
(* State.                                                                  *)
(***************************************************************************)
VARIABLES
    source,     \* document store: per family, the collection (once it is read)
    nodes,      \* graph store: the nodes, each with Neo4j's internal id
    edges,      \* graph store: the relationships
    fresh,      \* per worker: the next identifier it draws (uuid4, internal ids)
    pc,         \* per worker: the statement of the handler it is at
    loc,        \* per worker: the handler's local variables
    open,       \* per worker: graph sessions acquired and not closed
    budget,     \* per worker: calls the caller may still issue
    log,        \* the calls that returned, in order, with their results
    builder,    \* the relationship builder's call: its locals and its response
    corr,       \* the correlation's call: the collections, locals and response
    scan,       \* the PII scan's call: the target, connections, locals, stored scans
    calc,       \* a function of the canonicalizer or the masker: argument and results
    refresh     \* the KEV refreshes: per worker the call's locals, and the calls that returned

rebuildVars == <<source, nodes, edges, fresh, pc, loc, open, budget, log>>

vars == <<rebuildVars, builder, corr, scan, calc, refresh>>

NoLoc ==
    [fam |-> "none", docs |-> <<>>, i |-> 0, vulns |-> <<>>, j |-> 0,
     img |-> <<>>, vid |-> "", failed |-> FALSE, late |-> FALSE]

Unread == [read |-> FALSE, docs |-> <<>>]

\* The other handlers before they are called.
BuilderIdle ==
    [pc |-> "idle", queries |-> <<>>, k |-> 0, results |-> <<>>, ran |-> <<>>,
     open |-> 0, response |-> <<>>]

CorrIdle ==
    [pc |-> "idle", kev |-> <<>>, docs |-> <<>>, kev_cve_ids |-> <<>>,
     todo |-> <<>>, correlated_vulns |-> <<>>, refs |-> <<>>, response |-> <<>>]

CalcIdle == [pc |-> "idle"]

\* No KEV refresh is called.
RefreshIdle ==
    [w |-> [p \in Procs |-> [pc |-> "idle", vulnerabilities |-> <<>>, raised |-> FALSE,
                             feed |-> <<>>, before |-> <<>>]],
     budget |-> [p \in Procs |-> 0],
     sizes |-> {},
     issued |-> 0,
     log |-> <<>>]

ScanIdle ==
    [pc |-> "idle", request |-> <<>>, conns |-> 0, dbs |-> <<>>, tables |-> <<>>,
     target_database |-> "", aborted |-> FALSE, results |-> <<>>, read |-> {},
     calls |-> 0, stored |-> <<>>, response |-> <<>>,
     objects |-> <<>>, s3_stored |-> <<>>, opened |-> 0]

(***************************************************************************)
(* Graph store statements.                                                 *)
(***************************************************************************)
HasLabel(label) == {n \in nodes : n.label = label}

HasProp(n, k, val) == k \in DOMAIN n.props /\ n.props[k] = val

\* MATCH (n:<label>) DETACH DELETE n   (labels are case-sensitive)
DetachDelete(label) ==
    LET gone == {n.nid : n \in HasLabel(label)}
    IN  /\ nodes' = {n \in nodes : n.nid \notin gone}
        /\ edges' = {e \in edges : e.from \notin gone /\ e.to \notin gone}

\* CREATE (n:<label> $properties), run by worker p
CreateNode(p, label, props) ==
    /\ nodes' = nodes \cup {[nid |-> <<p, fresh[p]>>, label |-> label, props |-> props]}
    /\ fresh' = [fresh EXCEPT ![p] = @ + 1]

\* MATCH (a ...) MATCH (b ...) CREATE (a)-[:<type>]->(b): one relationship per
\* matched pair, whether or not the pair is related already.
CreateRel(p, type, as, bs) ==
    /\ edges' = edges \cup {[eid |-> <<p, fresh[p]>>, type |-> type,
                             from |-> a.nid, to |-> b.nid] : a \in as, b \in bs}
    /\ fresh' = [fresh EXCEPT ![p] = @ + 1]

(***************************************************************************)
(* Graph rebuild handlers (neo4j_asset_resource.py): what is common.       *)
(***************************************************************************)
\* datetime.now().isoformat()
Now == "2024-01-01T00:00:00"

\* The handler's locals after one more statement ran; late records that a
\* statement ran after an earlier statement of the same call had failed.
Upd(p, l) ==
    loc' = [loc EXCEPT ![p] = [l EXCEPT !.late = loc[p].late \/ loc[p].failed]]

\* collection.find(): the collection is fixed from its first read on.
Find(fam, docs) ==
    /\ docs \in Collections(Menu(fam))
    /\ source[fam].read => docs = source[fam].docs
    /\ source' = [source EXCEPT ![fam] = [read |-> TRUE, docs |-> docs]]

\* The call returns: (body, status) goes to the caller.
Return(p, status, failed) ==
    /\ log' = Append(log, [p |-> p, fam |-> loc[p].fam, status |-> status,
                           failed |-> failed, late |-> loc[p].late,
                           count |-> Len(loc[p].docs)])
    /\ pc' = [pc EXCEPT ![p] = "idle"]
    /\ loc' = [loc EXCEPT ![p] = NoLoc]

\* A handler whose except clause swallows the error and carries on.
ExceptSwallow(p) ==
    /\ loc' = [loc EXCEPT ![p].failed = TRUE]
    /\ UNCHANGED <<pc, log>>

\* except Exception as e: log, return {'message': ...}, 500
Except(p) == Return(p, 500, TRUE)

\* The first statement after session = neo4j_conn.get_session()
FirstPc(fam) ==
    CASE fam = "docker" -> "d_del_img"
      [] fam = "kev" -> "k_del"
      [] fam = "asset" -> "a_find"
      [] fam = "s3" -> "s_del"

\* A caller issues POST for family fam; the handler acquires its session.
\* Neo4jConnection.get_session returns a new session of the shared driver: no
\* lock is taken, and no call waits for another.
Post(p, fam) ==
    /\ pc[p] = "idle"
    /\ budget[p] > 0
    /\ budget' = [budget EXCEPT ![p] = @ - 1]
    /\ open' = [open EXCEPT ![p] = @ + 1]
    /\ loc' = [loc EXCEPT ![p] = [NoLoc EXCEPT !.fam = fam]]
    /\ pc' = [pc EXCEPT ![p] = FirstPc(fam)]
    /\ UNCHANGED <<source, nodes, edges, fresh, log, builder, corr, scan, calc, refresh>>

\* The statements of a handler at which the graph store or the document store
\* is called, and may raise.
StorePcs ==
    {"d_del_img", "d_del_vuln", "d_find", "d_img", "d_vuln", "d_rel", "d_counts",
     "k_del", "k_find", "k_node", "k_rel", "a_find", "a_node",
     "s_del", "s_find", "s_node"}

\* session.run(...) or collection.find() raises: control goes to the handler's
\* except clause.
StatementFails(p) ==
    /\ pc[p] \in StorePcs
    /\ Except(p)
    /\ UNCHANGED <<source, nodes, edges, fresh, open, budget, builder, corr, scan, calc, refresh>>

\* session.close(); return {...}, 200
Close(p) ==
    /\ pc[p] = "close"
    /\ open' = [open EXCEPT ![p] = @ - 1]
    /\ Return(p, 200, loc[p].failed)
    /\ UNCHANGED <<source, nodes, edges, fresh, budget, builder, corr, scan, calc, refresh>>

(***************************************************************************)
(* Neo4jDockerVulnerabilityResource.post                                   *)
(***************************************************************************)
RECURSIVE DocVulns(_)
\* The nested records of a document's groups, in the order the loops of
\* lines 115-117 visit them.
DocVulns(groups) ==
    IF groups = <<>> THEN <<>>
    ELSE (IF "Vulnerabilities" \in DOMAIN Head(groups)
            THEN Head(groups).Vulnerabilities ELSE <<>>) \o DocVulns(Tail(groups))

ImageProperties(doc) ==
    prepare_node_properties(
        [id |-> VStr(doc["_id"].v),
         image_uri |-> Get(doc, "image_uri", VNull),
         region |-> Get(doc, "region", VNull),
         repository |-> Get(doc, "repository", VNull),
         scan_time |-> Get(doc, "scan_time", VDateTime(Now)),
         total_vulnerabilities |-> VInt(0),
         high_vulnerabilities |-> VInt(0),
         medium_vulnerabilities |-> VInt(0),
         low_vulnerabilities |-> VInt(0)])

D_DelImg(p) ==
    /\ pc[p] = "d_del_img"
    /\ DetachDelete("dockerimage")
    /\ pc' = [pc EXCEPT ![p] = "d_del_vuln"]
    /\ Upd(p, loc[p])
    /\ UNCHANGED <<source, fresh, open, budget, log, builder, corr, scan, calc, refresh>>

D_DelVuln(p) ==
    /\ pc[p] = "d_del_vuln"
    /\ DetachDelete("vulnerability")
    /\ pc' = [pc EXCEPT ![p] = "d_find"]
    /\ Upd(p, loc[p])
    /\ UNCHANGED <<source, fresh, open, budget, log, builder, corr, scan, calc, refresh>>

D_Find(p) ==
    /\ pc[p] = "d_find"
    /\ \E docs \in Collections(DockerDocMenu) :
          /\ Find("docker", docs)
          /\ Upd(p, [loc[p] EXCEPT !.docs = docs, !.i = 1])
          /\ pc' = [pc EXCEPT ![p] = IF docs = <<>> THEN "close" ELSE "d_img"]
    /\ UNCHANGED <<nodes, edges, fresh, open, budget, log, builder, corr, scan, calc, refresh>>

D_Img(p) ==
    /\ pc[p] = "d_img"
    /\ LET doc == loc[p].docs[loc[p].i]
           props == ImageProperties(doc)
           vulns == IF "vulnerabilities" \in DOMAIN doc
                      THEN DocVulns(doc.vulnerabilities) ELSE <<>>
       IN  /\ CreateNode(p, "dockerimage", props)
           /\ Upd(p, [loc[p] EXCEPT !.img = props, !.vulns = vulns, !.j = 1])
           /\ pc' = [pc EXCEPT ![p] = IF vulns = <<>> THEN "d_counts" ELSE "d_vuln"]
    /\ UNCHANGED <<source, edges, open, budget, log, builder, corr, scan, calc, refresh>>

D_Vuln(p) ==
    /\ pc[p] = "d_vuln"
    /\ LET vuln == loc[p].vulns[loc[p].j]
           vid == Uuid4(p, fresh[p])
           props == ("id" :> VStr(vid)) @@ prepare_node_properties(vuln)
       IN  /\ CreateNode(p, "vulnerability", props)
           /\ Upd(p, [loc[p] EXCEPT !.vid = vid])
    /\ pc' = [pc EXCEPT ![p] = "d_rel"]
    /\ UNCHANGED <<source, edges, open, budget, log, builder, corr, scan, calc, refresh>>

\* A counter chosen by the Severity as it is written.
SeverityKeyExact(vuln) ==
    LET severity == Get(vuln, "Severity", VStr("")).v
    IN  CASE severity = "HIGH" -> "high_vulnerabilities"
          [] severity = "MEDIUM" -> "medium_vulnerabilities"
          [] severity = "LOW" -> "low_vulnerabilities"
          [] OTHER -> "none"

\* The counter of image_properties that a record's Severity adds to.
SeverityKey(vuln) ==
    LET severity == Upper(Get(vuln, "Severity", VStr("")).v)
    IN  CASE severity = "HIGH" -> "high_vulnerabilities"
          [] severity = "MEDIUM" -> "medium_vulnerabilities"
          [] severity = "LOW" -> "low_vulnerabilities"
          [] OTHER -> "none"

Incr(x) == VInt(x.v + 1)

\* A relationship statement that matches the image by its label only.
D_RelAnyImage(p) ==
    /\ pc[p] = "d_rel"
    /\ LET l == loc[p]
           key == SeverityKey(l.vulns[l.j])
           counted == IF key = "none" THEN l.img
                      ELSE [l.img EXCEPT ![key] = Incr(@)]
           img == [counted EXCEPT !["total_vulnerabilities"] = Incr(@)]
       IN  /\ CreateRel(p, "has_vulnerability",
                        HasLabel("dockerimage"),
                        {n \in HasLabel("vulnerability") : HasProp(n, "id", VStr(l.vid))})
           /\ Upd(p, [l EXCEPT !.img = img, !.j = @ + 1])
           /\ pc' = [pc EXCEPT ![p] = IF l.j = Len(l.vulns) THEN "d_counts" ELSE "d_vuln"]
    /\ UNCHANGED <<source, nodes, open, budget, log, builder, corr, scan, calc, refresh>>

D_Rel(p) ==
    /\ pc[p] = "d_rel"
    /\ LET l == loc[p]
           key == SeverityKey(l.vulns[l.j])
           counted == IF key = "none" THEN l.img
                      ELSE [l.img EXCEPT ![key] = Incr(@)]
           img == [counted EXCEPT !["total_vulnerabilities"] = Incr(@)]
       IN  /\ CreateRel(p, "has_vulnerability",
                        {n \in HasLabel("dockerimage") : HasProp(n, "id", l.img["id"])},
                        {n \in HasLabel("vulnerability") : HasProp(n, "id", VStr(l.vid))})
           /\ Upd(p, [l EXCEPT !.img = img, !.j = @ + 1])
           /\ pc' = [pc EXCEPT ![p] = IF l.j = Len(l.vulns) THEN "d_counts" ELSE "d_vuln"]
    /\ UNCHANGED <<source, nodes, open, budget, log, builder, corr, scan, calc, refresh>>

CountKeys ==
    {"total_vulnerabilities", "high_vulnerabilities", "medium_vulnerabilities",
     "low_vulnerabilities"}

\* MATCH (i:dockerimage {id: $image_id}) SET i += $counts
D_Counts(p) ==
    /\ pc[p] = "d_counts"
    /\ LET l == loc[p]
           counts == [k \in CountKeys |-> l.img[k]]
       IN  /\ nodes' = {IF n.label = "dockerimage" /\ HasProp(n, "id", l.img["id"])
                          THEN [n EXCEPT !.props = counts @@ n.props] ELSE n : n \in nodes}
           /\ Upd(p, [l EXCEPT !.i = @ + 1])
           /\ pc' = [pc EXCEPT ![p] = IF l.i = Len(l.docs) THEN "close" ELSE "d_img"]
    /\ UNCHANGED <<source, edges, fresh, open, budget, log, builder, corr, scan, calc, refresh>>

(***************************************************************************)
(* Neo4jKnownExploitedVulnerabilityResource.post                           *)
(***************************************************************************)
KevKnownKeys ==
    {"_id", "cveID", "vendorProject", "product", "vulnerabilityName", "dateAdded",
     "shortDescription", "requiredAction", "dueDate", "knownRansomwareCampaignUse",
     "notes", "cwes", "imported_at"}

\* doc.get(key, '').lower()
GetLower(doc, k) == VStr(Lower(Get(doc, k, VStr("")).v))

KevProperties(doc) ==
    LET kev_id == doc["_id"].v
        extra == DOMAIN doc \ KevKnownKeys
        fixed ==
          [id |-> VStr(Lower(kev_id)),
           cve_id |-> GetLower(doc, "cveID"),
           vendor_project |-> GetLower(doc, "vendorProject"),
           product |-> GetLower(doc, "product"),
           vulnerability_name |-> GetLower(doc, "vulnerabilityName"),
           date_added |-> clean_value(Get(doc, "dateAdded", VNull)),
           short_description |-> GetLower(doc, "shortDescription"),
           required_action |-> GetLower(doc, "requiredAction"),
           due_date |-> clean_value(Get(doc, "dueDate", VNull)),
           known_ransomware_campaign_use |-> GetLower(doc, "knownRansomwareCampaignUse"),
           notes |-> GetLower(doc, "notes"),
           cwes |-> clean_value(Get(doc, "cwes", VList(<<>>))),
           imported_at |-> clean_value(Get(doc, "imported_at", VNull))]
    IN  [ck \in {Lower(k) : k \in extra} |->
            clean_value(doc[CHOOSE k \in extra : Lower(k) = ck])] @@ fixed

\* A KEV rebuild whose delete statement names the vulnerability label.
K_DelOtherLabel(p) ==
    /\ pc[p] = "k_del"
    /\ DetachDelete("vulnerability")
    /\ pc' = [pc EXCEPT ![p] = "k_find"]
    /\ Upd(p, loc[p])
    /\ UNCHANGED <<source, fresh, open, budget, log, builder, corr, scan, calc, refresh>>

\* session.run("MATCH (n:KnownExploitedVulnerability) DETACH DELETE n")
K_Del(p) ==
    /\ pc[p] = "k_del"
    /\ DetachDelete("KnownExploitedVulnerability")
    /\ pc' = [pc EXCEPT ![p] = "k_find"]
    /\ Upd(p, loc[p])
    /\ UNCHANGED <<source, fresh, open, budget, log, builder, corr, scan, calc, refresh>>

K_Find(p) ==
    /\ pc[p] = "k_find"
    /\ \E docs \in Collections(KevDocMenu) :
          /\ Find("kev", docs)
          /\ Upd(p, [loc[p] EXCEPT !.docs = docs, !.i = 1])
          /\ pc' = [pc EXCEPT ![p] = IF docs = <<>> THEN "close" ELSE "k_node"]
    /\ UNCHANGED <<nodes, edges, fresh, open, budget, log, builder, corr, scan, calc, refresh>>

\* The statement after the ones for document i.
NextDoc(l, nodepc) == IF l.i = Len(l.docs) THEN "close" ELSE nodepc

K_Node(p) ==
    /\ pc[p] = "k_node"
    /\ LET l == loc[p]
           props == KevProperties(l.docs[l.i])
       IN  /\ CreateNode(p, "knownexploitedvulnerability", props)
           /\ IF props["cve_id"].v # ""
                THEN /\ Upd(p, [l EXCEPT !.img = props])
                     /\ pc' = [pc EXCEPT ![p] = "k_rel"]
                ELSE /\ Upd(p, [l EXCEPT !.i = @ + 1])
                     /\ pc' = [pc EXCEPT ![p] = NextDoc(l, "k_node")]
    /\ UNCHANGED <<source, edges, open, budget, log, builder, corr, scan, calc, refresh>>

\* MATCH (kev:knownexploitedvulnerability {id: $kev_id})
\* MATCH (v:vulnerability {vulnerability_id: $cve_id}) CREATE (kev)-[:exploits]->(v)
K_Rel(p) ==
    /\ pc[p] = "k_rel"
    /\ LET l == loc[p]
       IN  /\ CreateRel(p, "exploits",
                        {n \in HasLabel("knownexploitedvulnerability") :
                            HasProp(n, "id", VStr(Lower(l.img["id"].v)))},
                        {n \in HasLabel("vulnerability") :
                            HasProp(n, "vulnerability_id", VStr(Lower(l.img["cve_id"].v)))})
           /\ Upd(p, [l EXCEPT !.i = @ + 1, !.img = <<>>])
           /\ pc' = [pc EXCEPT ![p] = NextDoc(l, "k_node")]
    /\ UNCHANGED <<source, nodes, open, budget, log, builder, corr, scan, calc, refresh>>

(***************************************************************************)
(* Neo4jAssetResource.post                                                 *)
(***************************************************************************)
\* AWSAsset.get_all(): find(query, {'_id': 0})
WithoutId(doc) == [k \in DOMAIN doc \ {"_id"} |-> doc[k]]

\* Whether CREATE (n:<label> $properties) parses: the label is spliced into the
\* statement's text and must be one Cypher identifier.
IsCypherLabel(label) == label \notin {"", "S3 Bucket"}

AssetLabel(asset) == Get(asset, "resource_type", VStr("Unknown")).v

AssetProperties(asset, asset_id) ==
    ("id" :> VStr(asset_id)) @@ [k \in DOMAIN asset \ {"_id"} |-> clean_value(asset[k])]

A_Find(p) ==
    /\ pc[p] = "a_find"
    /\ \E docs \in Collections(AssetDocMenu) :
          /\ Find("asset", docs)
          /\ Upd(p, [loc[p] EXCEPT !.docs = [i \in 1..Len(docs) |-> WithoutId(docs[i])],
                                   !.i = 1])
          /\ pc' = [pc EXCEPT ![p] = IF docs = <<>> THEN "close" ELSE "a_node"]
    /\ UNCHANGED <<nodes, edges, fresh, open, budget, log, builder, corr, scan, calc, refresh>>

A_Node(p) ==
    /\ pc[p] = "a_node"
    /\ LET l == loc[p]
           asset == l.docs[l.i]
           asset_id == IF "_id" \in DOMAIN asset THEN asset["_id"].v ELSE Uuid4(p, fresh[p])
       IN  /\ IsCypherLabel(AssetLabel(asset))
           /\ CreateNode(p, AssetLabel(asset), AssetProperties(asset, asset_id))
           /\ Upd(p, [l EXCEPT !.i = @ + 1])
           /\ pc' = [pc EXCEPT ![p] = NextDoc(l, "a_node")]
    /\ UNCHANGED <<source, edges, open, budget, log, builder, corr, scan, calc, refresh>>

\* The statement does not parse: session.run raises a syntax error.
A_NodeRejected(p) ==
    /\ pc[p] = "a_node"
    /\ ~IsCypherLabel(AssetLabel(loc[p].docs[loc[p].i]))
    /\ Except(p)
    /\ UNCHANGED <<source, nodes, edges, fresh, open, budget, builder, corr, scan, calc, refresh>>

(***************************************************************************)
(* Neo4jS3ComplianceResource.post                                          *)
(***************************************************************************)
\* list(a_set): the items in the order the set happens to iterate.
Orderings(S) ==
    {q \in [1..Cardinality(S) -> S] : \A i, j \in 1..Cardinality(S) : q[i] = q[j] => i = j}

CountCriticality(docs, level) ==
    VInt(Cardinality({i \in 1..Len(docs) :
                        Upper(Get(docs[i], "criticality", VStr("")).v) = level}))

Items(docs, k) ==
    UNION {IF k \in DOMAIN docs[i]
             THEN (IF docs[i][k].t = "list"
                     THEN {docs[i][k].v[j] : j \in 1..Len(docs[i][k].v)}
                     ELSE {docs[i][k]})
             ELSE {} : i \in 1..Len(docs)}

S3Properties(docs, id, standards, buckets) ==
    LET findings_list ==
            VList([i \in 1..Len(docs) |->
                     VDict([docs[i] EXCEPT !["_id"] = VStr(docs[i]["_id"].v)])])
    IN  [id |-> VStr(Lower(id)),
         critical_findings |-> CountCriticality(docs, "CRITICAL"),
         high_findings |-> CountCriticality(docs, "HIGH"),
         medium_findings |-> CountCriticality(docs, "MEDIUM"),
         low_findings |-> CountCriticality(docs, "LOW"),
         compliance_standards |-> clean_value(VList(standards)),
         total_findings |-> VInt(Len(docs)),
         last_updated |-> VStr(Now),
         findings |-> clean_value(findings_list),
         raw_findings |-> clean_value(findings_list),
         bucket_names |-> clean_value(VList(buckets))]

\* session.run("MATCH (n:S3ComplianceSummary) DETACH DELETE n")
S_Del(p) ==
    /\ pc[p] = "s_del"
    /\ DetachDelete("S3ComplianceSummary")
    /\ pc' = [pc EXCEPT ![p] = "s_find"]
    /\ Upd(p, loc[p])
    /\ UNCHANGED <<source, fresh, open, budget, log, builder, corr, scan, calc, refresh>>

S_Find(p) ==
    /\ pc[p] = "s_find"
    /\ \E docs \in Collections(S3FindingMenu) :
          /\ Find("s3", docs)
          /\ Upd(p, [loc[p] EXCEPT !.docs = docs])
    /\ pc' = [pc EXCEPT ![p] = "s_node"]
    /\ UNCHANGED <<nodes, edges, fresh, open, budget, log, builder, corr, scan, calc, refresh>>

S_Node(p) ==
    /\ pc[p] = "s_node"
    /\ \E standards \in Orderings(Items(loc[p].docs, "compliance_standards")),
          buckets \in Orderings(Items(loc[p].docs, "bucket_name")) :
          CreateNode(p, "s3compliancesummary",
                     S3Properties(loc[p].docs, Uuid4(p, fresh[p]), standards, buckets))
    /\ Upd(p, loc[p])
    /\ pc' = [pc EXCEPT ![p] = "close"]
    /\ UNCHANGED <<source, edges, open, budget, log, builder, corr, scan, calc, refresh>>

(***************************************************************************)
(* Specifications of the rebuilds.                                         *)
(***************************************************************************)
InitStores ==
    /\ source = [f \in Families |-> Unread]
    /\ nodes = {}
    /\ edges = {}
    /\ fresh = [p \in Procs |-> 1]
    /\ pc = [p \in Procs |-> "idle"]
    /\ loc = [p \in Procs |-> NoLoc]
    /\ open = [p \in Procs |-> 0]
    /\ log = <<>>

\* No rebuild is called, and no function is evaluated on its own.
NoRebuild ==
    /\ InitStores
    /\ budget = [p \in Procs |-> 0]
    /\ calc = CalcIdle
    /\ refresh = RefreshIdle

InitGraph ==
    /\ InitStores
    /\ calc = CalcIdle
    /\ refresh = RefreshIdle
    /\ builder = BuilderIdle
    /\ corr = CorrIdle
    /\ scan = ScanIdle

\* One caller issuing its calls one after the other.
InitSeq == InitGraph /\ budget = [p \in Procs |-> IF p = 1 THEN MaxCalls ELSE 0]

\* Two callers, one call each.
InitConc == InitGraph /\ budget = [p \in Procs |-> 1]

DockerSteps(p) ==
    \/ D_DelImg(p) \/ D_DelVuln(p) \/ D_Find(p) \/ D_Img(p)
    \/ D_Vuln(p) \/ D_Rel(p) \/ D_Counts(p)

KevSteps(p) == K_Del(p) \/ K_Find(p) \/ K_Node(p) \/ K_Rel(p)

AssetSteps(p) == A_Find(p) \/ A_Node(p) \/ A_NodeRejected(p)

S3Steps(p) == S_Del(p) \/ S_Find(p) \/ S_Node(p)

NextSeq ==
    \E p \in Procs :
        \/ \E fam \in Families : Post(p, fam)
        \/ DockerSteps(p) \/ KevSteps(p) \/ AssetSteps(p) \/ S3Steps(p)
        \/ StatementFails(p)
        \/ Close(p)

NextConc ==
    \E p \in Procs :
        \/ \E fam \in {"docker", "kev"} : Post(p, fam)
        \/ DockerSteps(p) \/ KevSteps(p)
        \/ Close(p)

SpecSeq == InitSeq /\ [][NextSeq]_vars

SpecConc == InitConc /\ [][NextConc]_vars

(***************************************************************************)
(* Properties of the rebuilds.                                             *)
(***************************************************************************)
Idle == \A p \in Procs : pc[p] = "idle"

Docs(fam) == source[fam].docs

\* The labels rebuild(fam) creates nodes under.
FamilyLabels(fam) ==
    CASE fam = "docker" -> {"dockerimage"}
      [] fam = "kev" -> {"knownexploitedvulnerability"}
      [] fam = "asset" -> {AssetLabel(Docs("asset")[i]) : i \in 1..Len(Docs("asset"))}
      [] fam = "s3" -> {"s3compliancesummary"}

FamilyNodes(fam) == {n \in nodes : n.label \in FamilyLabels(fam)}

\* The nested records of the container-scan collection, by position.
VulnRefs ==
    {<<i, j>> \in (1..Len(Docs("docker"))) \X (1..4) :
        /\ "vulnerabilities" \in DOMAIN Docs("docker")[i]
        /\ j <= Len(DocVulns(Docs("docker")[i].vulnerabilities))}

VulnAt(r) == DocVulns(Docs("docker")[r[1]].vulnerabilities)[r[2]]

\* The (KEV entry, nested record) pairs the exploits statement relates when
\* every vulnerability node exists.
ExploitPairs ==
    {<<k, r>> \in (1..Len(Docs("kev"))) \X VulnRefs :
        LET cve == GetLower(Docs("kev")[k], "cveID")
            props == prepare_node_properties(VulnAt(r))
        IN  /\ cve.v # ""
            /\ "vulnerability_id" \in DOMAIN props
            /\ props["vulnerability_id"] = cve}

EdgesOf(type) == {e \in edges : e.type = type}

\* What an uninterrupted rebuild(fam) leaves on an empty graph: nodes of the
\* family's labels, and relationships the rebuild creates.
CleanCounts(fam) ==
    CASE fam = "docker" ->
            [nodes |-> Len(Docs("docker")), nested |-> Cardinality(VulnRefs),
             rels |-> Cardinality(VulnRefs)]
      [] fam = "kev" -> [nodes |-> Len(Docs("kev")), nested |-> 0, rels |-> 0]
      [] fam = "asset" -> [nodes |-> Len(Docs("asset")), nested |-> 0, rels |-> 0]
      [] fam = "s3" -> [nodes |-> 1, nested |-> 0, rels |-> 0]

ActualCounts(fam) ==
    [nodes |-> Cardinality(FamilyNodes(fam)),
     nested |-> IF fam = "docker" THEN Cardinality(HasLabel("vulnerability")) ELSE 0,
     rels |-> IF fam = "docker" THEN Cardinality(EdgesOf("has_vulnerability"))
              ELSE IF fam = "kev" THEN Cardinality(EdgesOf("exploits")) ELSE 0]

\* The calls so far were two calls of one family, with these statuses.
TwoCalls(fam, s1, s2) ==
    /\ Idle
    /\ Len(log) = 2
    /\ log[1].fam = fam /\ log[2].fam = fam
    /\ log[1].status = s1 /\ log[2].status = s2

\* C1: rebuild(F) run twice in sequence on an unchanged collection of N
\* documents leaves exactly N nodes under the label rebuild(F) creates, for
\* each of the per-document families (cloud assets, container images, KEV).
C1_FullReplace ==
    \A fam \in {"asset", "docker", "kev"} :
        TwoCalls(fam, 200, 200) => Cardinality(FamilyNodes(fam)) = Len(Docs(fam))

\* A rebuild that has run its delete statement(s) and not yet its last insert.
InRebuild(p) == pc[p] \in StorePcs \ {"d_del_img", "k_del", "s_del"}

\* C2: two rebuilds of the same family are never both between the start of
\* their delete step and the end of their reinsert step.
C2_MutualExclusion ==
    \A p, q \in Procs :
        (p # q /\ loc[p].fam = loc[q].fam) => ~(InRebuild(p) /\ InRebuild(q))

\* One rebuild of the container-image family and one of the KEV family have
\* both returned.
BothFamiliesDone ==
    /\ Idle
    /\ Len(log) = 2
    /\ {log[1].fam, log[2].fam} = {"docker", "kev"}

FinalNodes ==
    [images |-> Cardinality(HasLabel("dockerimage")),
     vulnerabilities |-> Cardinality(HasLabel("vulnerability")),
     kevs |-> Cardinality(HasLabel("knownexploitedvulnerability")),
     has_vulnerability |-> Cardinality(EdgesOf("has_vulnerability"))]

\* The nodes every order of the two rebuilds must end with, on an empty graph.
ExpectedNodes ==
    [images |-> Len(Docs("docker")),
     vulnerabilities |-> Cardinality(VulnRefs),
     kevs |-> Len(Docs("kev")),
     has_vulnerability |-> Cardinality(VulnRefs)]

C4_SessionClosed == \A p \in Procs : pc[p] = "idle" => open[p] = 0

\* C6: once a statement of a rebuild has failed, no later statement of that
\* rebuild runs and the call returns an error: no call returns 200 after one
\* of its statements failed.
C6_AbortOnFailure ==
    /\ \A p \in Procs : ~loc[p].late
    /\ \A i \in 1..Len(log) :
          log[i].failed => (log[i].status = 500 /\ ~log[i].late)

\* A rebuild failed after it had inserted nodes, and returned.
C6_Witness ==
    /\ Len(log) = 1
    /\ log[1].failed
    /\ nodes # {}

\* C7: an uninterrupted rebuild(F) that follows an interrupted rebuild(F) on
\* the same snapshot leaves as many nodes and relationships for F as one
\* uninterrupted rebuild(F) on an empty graph.
C7_RerunRepairs ==
    \A fam \in Families :
        TwoCalls(fam, 500, 200) => ActualCounts(fam) = CleanCounts(fam)

(***************************************************************************)
(* Neo4jRelationshipBuilderResource (neo4j_relationship_resource.py).      *)
(* A statement's text is the sequence of its tokens; str.find gives the    *)
(* 0-based place of a token, and a slice joins the tokens between two      *)
(* places.                                                                 *)
(***************************************************************************)
MaxStmts == 3       \* segments of the statement file

\* The segment str.strip() leaves of white space between two semicolons.
Blank == <<>>

QueryMenu ==
    { <<"MATCH (a),(b) ", "MERGE", " (a)-", "[:", "OWNS", "]", "->(b)">>,
      <<"MATCH (a) SET a.x = 1">>,
      <<"[:", "USES", "]", " MERGE">> }

\* file.read().split(";"), each segment stripped
QueryFiles == UNION {[1..n -> QueryMenu \cup {Blank}] : n \in 0..MaxStmts}

RECURSIVE NonBlank(_)
NonBlank(segments) ==
    IF segments = <<>> THEN <<>>
    ELSE (IF Head(segments) # Blank THEN <<Head(segments)>> ELSE <<>>)
            \o NonBlank(Tail(segments))

load_queries(file) == NonBlank(file)

\* token in query
Contains(query, tok) == \E i \in 1..Len(query) : query[i] = tok

\* query.find(tok, start): 0-based, -1 when the token does not occur
FindFrom(query, tok, start) ==
    LET at == {i \in 0..(Len(query) - 1) : i >= start /\ query[i + 1] = tok}
    IN  IF at = {} THEN -1 ELSE CHOOSE i \in at : \A j \in at : i <= j

RECURSIVE Join(_)
Join(toks) == IF toks = <<>> THEN "" ELSE Head(toks) \o Join(Tail(toks))

\* Lines 54-59: the relationship type read off the statement's text.
RelationshipType(query) ==
    IF Contains(query, "MERGE") /\ Contains(query, "[:") /\ Contains(query, "]")
      THEN LET rel_start == FindFrom(query, "[:", 0)
               rel_end == FindFrom(query, "]", rel_start)
           IN  IF rel_start > 0 /\ rel_end > rel_start
                 THEN Join(SubSeq(query, rel_start + 2, rel_end))
                 ELSE "Unknown"
      ELSE "Unknown"

\* summary.counters of a statement that ran: what it created is the graph
\* store's to say.
CounterMenu ==
    { [nodes_created |-> 0, relationships_created |-> 0, properties_set |-> 0],
      [nodes_created |-> 0, relationships_created |-> 1, properties_set |-> 0],
      [nodes_created |-> 1, relationships_created |-> 2, properties_set |-> 1] }

RECURSIVE SumRelationships(_)
\* sum(r.get('relationships_created', 0) for r in results)
SumRelationships(results) ==
    IF results = <<>> THEN 0
    ELSE (IF "relationships_created" \in DOMAIN Head(results)
            THEN Head(results).relationships_created ELSE 0)
         + SumRelationships(Tail(results))

\* sum(1 for r in results if 'error' not in r)
CountSuccessful(results) ==
    Cardinality({i \in 1..Len(results) : "error" \notin DOMAIN results[i]})

\* Lines 31-48: the statements are loaded; without any the call returns 400,
\* else a session is acquired and the loop starts.
B_Post ==
    /\ builder.pc = "idle"
    /\ \E file \in QueryFiles :
          LET queries == load_queries(file)
          IN  builder' =
                IF queries = <<>>
                  THEN [builder EXCEPT
                          !.pc = "done",
                          !.response = [status |-> 400,
                                        message |-> "No queries found in the specified file"]]
                  ELSE [builder EXCEPT !.pc = "loop", !.queries = queries, !.k = 1,
                                       !.open = @ + 1]
    /\ UNCHANGED <<rebuildVars, corr, scan, calc, refresh>>

\* The loop goes on to the next statement, or ends.
AfterQuery(b) == [b EXCEPT !.k = @ + 1, !.pc = IF b.k = Len(b.queries) THEN "close" ELSE "loop"]

\* Lines 51-71: the statement runs, and its counters are recorded.
B_Run ==
    /\ builder.pc = "loop"
    /\ \E counters \in CounterMenu :
          builder' = AfterQuery(
              [builder EXCEPT
                 !.results = Append(@, [relationship_type |-> RelationshipType(builder.queries[builder.k])]
                                          @@ counters),
                 !.ran = Append(@, [k |-> builder.k, failed |-> FALSE,
                                    created |-> counters.relationships_created])])
    /\ UNCHANGED <<rebuildVars, corr, scan, calc, refresh>>

\* A builder whose except clause leaves the loop.
B_RunFailsBreak ==
    /\ builder.pc = "loop"
    /\ builder' =
          [builder EXCEPT
             !.results = Append(@, [relationship_type |-> RelationshipType(builder.queries[builder.k]),
                                    error |-> "error"]),
             !.ran = Append(@, [k |-> builder.k, failed |-> TRUE, created |-> 0]),
             !.pc = "close"]
    /\ UNCHANGED <<rebuildVars, corr, scan, calc, refresh>>

\* Lines 73-79: session.run or consume raises; the error is recorded and the
\* loop continues.
B_RunFails ==
    /\ builder.pc = "loop"
    /\ builder' = AfterQuery(
          [builder EXCEPT
             !.results = Append(@, [relationship_type |-> RelationshipType(builder.queries[builder.k]),
                                    error |-> "error"]),
             !.ran = Append(@, [k |-> builder.k, failed |-> TRUE, created |-> 0])])
    /\ UNCHANGED <<rebuildVars, corr, scan, calc, refresh>>

\* Lines 81-94: session.close(), the totals, return 200.
B_Close ==
    /\ builder.pc = "close"
    /\ LET successful_queries == CountSuccessful(builder.results)
       IN  builder' =
             [builder EXCEPT
                !.pc = "done",
                !.open = @ - 1,
                !.response =
                   [status |-> 200,
                    total_queries |-> Len(builder.queries),
                    successful_queries |-> successful_queries,
                    failed_queries |-> Len(builder.queries) - successful_queries,
                    total_relationships_created |-> SumRelationships(builder.results),
                    details |-> builder.results]]
    /\ UNCHANGED <<rebuildVars, corr, scan, calc, refresh>>

InitBuilder == InitGraph /\ budget = [p \in Procs |-> 0]

NextBuilder == B_Post \/ B_Run \/ B_RunFails \/ B_Close

SpecBuilder == InitBuilder /\ [][NextBuilder]_vars

(***************************************************************************)
(* Properties of the relationship builder.                                 *)
(***************************************************************************)
\* The statements that ran and did not fail, by their place in the batch.
NonFailing == {i \in 1..Len(builder.ran) : ~builder.ran[i].failed}

RECURSIVE SumCreated(_)
SumCreated(S) ==
    IF S = {} THEN 0
    ELSE LET i == CHOOSE x \in S : TRUE
         IN  builder.ran[i].created + SumCreated(S \ {i})

\* Statements run once each, in batch order, whatever happened to earlier ones.
RanInOrder == \A i \in 1..Len(builder.ran) : builder.ran[i].k = i

\* The result of a batch of n statements: one detail entry per statement in
\* batch order, and the three totals.
IsolatedResult ==
    LET n == Len(builder.queries)
        r == builder.response
    IN  /\ r.status = 200
        /\ Len(builder.ran) = n
        /\ r.total_queries = n
        /\ Len(r.details) = n
        /\ \A i \in 1..n :
              /\ ("error" \in DOMAIN r.details[i]) = builder.ran[i].failed
              /\ r.details[i].relationship_type = RelationshipType(builder.queries[i])
        /\ r.successful_queries = Cardinality(NonFailing)
        /\ r.failed_queries = n - Cardinality(NonFailing)
        /\ r.total_relationships_created = SumCreated(NonFailing)

\* C8 as stated: for every batch of n statements and every subset of them that
\* fails, every statement runs exactly once in batch order and the result has
\* one detail entry per statement, successful = the non-failing statements,
\* failed = n minus that, total relationships = the sum of the non-failing
\* statements' relationships-created counters.
C8_FailureIsolation ==
    /\ RanInOrder
    /\ builder.pc = "done" => IsolatedResult

\* C8 as amended: the same, for every batch of n >= 1 statements; for a batch
\* without statements nothing runs and the call returns 400 without totals.
C8_FailureIsolationNonEmpty ==
    /\ RanInOrder
    /\ builder.pc = "done" =>
          IF builder.queries # <<>> THEN IsolatedResult
          ELSE builder.response.status = 400 /\ builder.ran = <<>>

\* A batch of three statements of which the second failed has returned, and
\* the third created relationships.
C8_Witness ==
    /\ builder.pc = "done"
    /\ Len(builder.ran) = 3
    /\ ~builder.ran[1].failed /\ builder.ran[2].failed /\ ~builder.ran[3].failed
    /\ builder.ran[3].created > 0

(***************************************************************************)
(* CorrelatedKnownExploitsResource (correlated_kev_resource.py).           *)
(***************************************************************************)
\* Findings of one image under two targets: the same CVE twice in one group,
\* with different packages, and a finding without Severity and PkgName.
VulnHighBar == [VulnerabilityID |-> VStr("CVE-1"), Severity |-> VStr("HIGH"),
                PkgName |-> VStr("bar"), InstalledVersion |-> VStr("1.0"),
                Layer |-> VDict([DiffID |-> VStr("sha256:1")])]
VulnBare == [VulnerabilityID |-> VStr("CVE-2"),
             PkgIdentifier |-> VDict([PURL |-> VStr("pkg:bar")])]
VulnNotKnown == [VulnerabilityID |-> VStr("CVE-3"), Severity |-> VStr("HIGH"),
                 PkgName |-> VStr("Foo")]

CorrDocMenu ==
    DockerDocMenu \cup
    { [image_uri |-> VStr("img-c"), repository |-> VStr("Repo"),
       vulnerabilities |-> << [Target |-> VStr("img-c (os)"),
                               Vulnerabilities |-> <<VulnHigh, VulnHighBar, VulnNotKnown>>],
                              [Target |-> VStr("img-c (lib)"),
                               Vulnerabilities |-> <<VulnBare>>] >>] }

CorrKevMenu ==
    KevDocMenu \cup
    { [cveID |-> VStr("CVE-2"), vendorProject |-> VStr("Acme"), product |-> VStr("bar"),
       dateAdded |-> VStr("2024-01-01"), knownRansomwareCampaignUse |-> VStr("Known")] }

RECURSIVE Flatten(_)
Flatten(qq) == IF qq = <<>> THEN <<>> ELSE Head(qq) \o Flatten(Tail(qq))

\* Lines 53-63: the nested findings the three loops visit, in order, as
\* (document, group, finding) places.  Documents without 'vulnerabilities'
\* and groups without 'Vulnerabilities' are skipped.
Traverse(docs) ==
    Flatten([i \in 1..Len(docs) |->
        IF "vulnerabilities" \notin DOMAIN docs[i] THEN <<>>
        ELSE Flatten([g \in 1..Len(docs[i].vulnerabilities) |->
                IF "Vulnerabilities" \notin DOMAIN docs[i].vulnerabilities[g] THEN <<>>
                ELSE [f \in 1..Len(docs[i].vulnerabilities[g].Vulnerabilities) |->
                        <<i, g, f>>]])])

GroupAt(docs, r) == docs[r[1]].vulnerabilities[r[2]]

FindingAt(docs, r) == GroupAt(docs, r).Vulnerabilities[r[3]]

\* kev_collection.find_one({"cveID": id}): the first entry with that cveID.
FindOne(catalog, id) ==
    LET at == {i \in 1..Len(catalog) :
                  "cveID" \in DOMAIN catalog[i] /\ catalog[i].cveID = id}
    IN  IF at = {} THEN VNull
        ELSE VDict(catalog[CHOOSE i \in at : \A j \in at : i <= j])

\* Line 42: [kev["cveID"] for kev in kev_cves if "cveID" in kev]
RECURSIVE CveIds(_)
CveIds(catalog) ==
    IF catalog = <<>> THEN <<>>
    ELSE (IF "cveID" \in DOMAIN Head(catalog) THEN <<Head(catalog).cveID>> ELSE <<>>)
            \o CveIds(Tail(catalog))

\* x in a_list
InList(x, q) == \E i \in 1..Len(q) : q[i] = x

Unknown == VStr("Unknown")

\* Lines 75-79
InstalledVersion(vuln) ==
    IF "PkgIdentifier" \in DOMAIN vuln /\ vuln.PkgIdentifier.t = "dict"
      THEN Get(vuln.PkgIdentifier.v, "InstalledVersion", Unknown)
    ELSE IF "InstalledVersion" \in DOMAIN vuln THEN vuln.InstalledVersion
    ELSE Unknown

\* Line 87
LayerId(vuln) ==
    IF "Layer" \in DOMAIN vuln /\ vuln.Layer.t = "dict"
      THEN Get(vuln.Layer.v, "DiffID", Unknown)
      ELSE Unknown

\* json.loads(json_util.dumps(x)): strings, numbers and lists come back as
\* they were; a datetime and an ObjectId come back as extended-JSON objects.
RECURSIVE JsonUtilRoundTrip(_)
JsonUtilRoundTrip(x) ==
    CASE x.t = "list" -> VList([i \in 1..Len(x.v) |-> JsonUtilRoundTrip(x.v[i])])
      [] x.t = "dict" -> VDict([k \in DOMAIN x.v |-> JsonUtilRoundTrip(x.v[k])])
      [] x.t = "datetime" -> VDict([date |-> VStr(x.v)])
      [] x.t = "oid" -> VDict([oid |-> VStr(x.v)])
      [] OTHER -> x

\* Lines 82-103
CorrelatedVuln(doc, vuln_item, vuln, kev_record) ==
    [cveID |-> vuln.VulnerabilityID,
     severity |-> Get(vuln, "Severity", Unknown),
     packageName |-> Get(vuln, "PkgName", Unknown),
     installedVersion |-> InstalledVersion(vuln),
     layerID |-> LayerId(vuln),
     imageName |-> Get(vuln_item, "Target", Unknown),
     imageID |-> Get(doc, "image_uri", Unknown),
     repository |-> Get(doc, "repository", Unknown),
     vendorProject |-> Get(kev_record, "vendorProject", Unknown),
     product |-> Get(kev_record, "product", Unknown),
     vulnerabilityName |-> Get(kev_record, "vulnerabilityName", Unknown),
     dateAdded |-> Get(kev_record, "dateAdded", Unknown),
     dueDate |-> Get(kev_record, "dueDate", Unknown),
     shortDescription |-> Get(kev_record, "shortDescription", Unknown),
     requiredAction |-> Get(kev_record, "requiredAction", Unknown),
     knownRansomwareCampaignUse |-> Get(kev_record, "knownRansomwareCampaignUse", Unknown),
     notes |-> Get(kev_record, "notes", Unknown),
     cwes |-> Get(kev_record, "cwes", VList(<<>>))]

\* round(x, 2) of x = m / k * 100, in hundredths: the nearest hundredth, the
\* even one of two that are equally near.
RoundHundredths(m, k) ==
    LET lo == (m * 10000) \div k
        twice == 2 * ((m * 10000) % k)
    IN  IF twice < k THEN lo
        ELSE IF twice > k THEN lo + 1
        ELSE IF lo % 2 = 0 THEN lo ELSE lo + 1

\* A summary whose percentage is taken of the findings visited.
PercentageOfFindings(matched, kev_cve_ids, visited) ==
    IF visited # 0 THEN RoundHundredths(matched, visited) ELSE 0

\* Line 115 (visited plays no part)
PercentageMatched(matched, kev_cve_ids, visited) ==
    IF kev_cve_ids # <<>> THEN RoundHundredths(matched, Len(kev_cve_ids)) ELSE 0

\* Lines 41-42
C_LoadKev ==
    /\ corr.pc = "idle"
    /\ corr' = [corr EXCEPT !.pc = "docs", !.kev_cve_ids = CveIds(corr.kev)]
    /\ UNCHANGED <<rebuildVars, builder, scan, calc, refresh>>

\* Line 46, and the places the loops will visit
C_LoadDocs ==
    /\ corr.pc = "docs"
    /\ corr' = [corr EXCEPT !.pc = "loop", !.todo = Traverse(corr.docs)]
    /\ UNCHANGED <<rebuildVars, builder, scan, calc, refresh>>

\* Lines 65-69: a finding without VulnerabilityID, or whose VulnerabilityID is
\* not in the KEV list, is passed over.
C_Skip ==
    /\ corr.pc = "loop" /\ corr.todo # <<>>
    /\ LET vuln == FindingAt(corr.docs, Head(corr.todo))
       IN  IF "VulnerabilityID" \in DOMAIN vuln
             THEN ~InList(vuln.VulnerabilityID, corr.kev_cve_ids)
             ELSE TRUE
    /\ corr' = [corr EXCEPT !.todo = Tail(@)]
    /\ UNCHANGED <<rebuildVars, builder, scan, calc, refresh>>

\* A correlation that reports a CVE once.
C_MatchOncePerCve ==
    /\ corr.pc = "loop" /\ corr.todo # <<>>
    /\ LET r == Head(corr.todo)
           vuln == FindingAt(corr.docs, r)
       IN  /\ "VulnerabilityID" \in DOMAIN vuln
           /\ InList(vuln.VulnerabilityID, corr.kev_cve_ids)
           /\ LET kev_record == FindOne(corr.kev, vuln.VulnerabilityID)
                  seen == \E i \in 1..Len(corr.correlated_vulns) :
                              corr.correlated_vulns[i].cveID = vuln.VulnerabilityID
              IN  corr' =
                    IF kev_record.t = "dict" /\ ~seen
                      THEN [corr EXCEPT
                              !.todo = Tail(@),
                              !.correlated_vulns =
                                  Append(@, CorrelatedVuln(corr.docs[r[1]], GroupAt(corr.docs, r),
                                                           vuln, kev_record.v)),
                              !.refs = Append(@, r)]
                      ELSE [corr EXCEPT !.todo = Tail(@)]
    /\ UNCHANGED <<rebuildVars, builder, scan, calc, refresh>>

\* Lines 69-105: the finding's VulnerabilityID is in the KEV list; its entry is
\* looked up and the combined record appended.
C_Match ==
    /\ corr.pc = "loop" /\ corr.todo # <<>>
    /\ LET r == Head(corr.todo)
           vuln == FindingAt(corr.docs, r)
       IN  /\ "VulnerabilityID" \in DOMAIN vuln
           /\ InList(vuln.VulnerabilityID, corr.kev_cve_ids)
           /\ LET kev_record == FindOne(corr.kev, vuln.VulnerabilityID)
              IN  corr' =
                    IF kev_record.t = "dict"
                      THEN [corr EXCEPT
                              !.todo = Tail(@),
                              !.correlated_vulns =
                                  Append(@, CorrelatedVuln(corr.docs[r[1]], GroupAt(corr.docs, r),
                                                           vuln, kev_record.v)),
                              !.refs = Append(@, r)]
                      ELSE [corr EXCEPT !.todo = Tail(@)]
    /\ UNCHANGED <<rebuildVars, builder, scan, calc, refresh>>

\* Lines 109-124
C_Summary ==
    /\ corr.pc = "loop" /\ corr.todo = <<>>
    /\ LET found == corr.correlated_vulns
           summary ==
             [total_kev_vulnerabilities |-> Len(corr.kev_cve_ids),
              total_matched_in_docker |-> Len(found),
              percentage_matched |->
                  PercentageMatched(Len(found), corr.kev_cve_ids, Len(Traverse(corr.docs))),
              affected_images |->
                  Cardinality({found[i].imageName : i \in 1..Len(found)})]
       IN  corr' = [corr EXCEPT
                      !.pc = "done",
                      !.response =
                         [summary |-> summary,
                          correlated_vulnerabilities |->
                              [i \in 1..Len(found) |-> JsonUtilRoundTrip(VDict(found[i])).v]]]
    /\ UNCHANGED <<rebuildVars, builder, scan, calc, refresh>>

\* The two collections are any the document store may hold; they do not
\* change during the call.
InitCorrelate ==
    /\ NoRebuild
    /\ builder = BuilderIdle
    /\ scan = ScanIdle
    /\ \E catalog \in Collections(CorrKevMenu), docs \in Collections(CorrDocMenu) :
          corr = [CorrIdle EXCEPT !.kev = catalog, !.docs = docs]

NextCorrelate == C_LoadKev \/ C_LoadDocs \/ C_Skip \/ C_Match \/ C_Summary

SpecCorrelate == InitCorrelate /\ [][NextCorrelate]_vars

(***************************************************************************)
(* Properties of the correlation.                                          *)
(***************************************************************************)
\* The cveIDs of the catalog's entries.
CatalogCves == {corr.kev[i].cveID : i \in {j \in 1..Len(corr.kev) : "cveID" \in DOMAIN corr.kev[j]}}

\* The places of the nested findings of the scan collection.
AllFindingRefs ==
    {r \in (1..MaxDocs) \X (1..2) \X (1..3) :
        /\ r[1] <= Len(corr.docs)
        /\ "vulnerabilities" \in DOMAIN corr.docs[r[1]]
        /\ r[2] <= Len(corr.docs[r[1]].vulnerabilities)
        /\ "Vulnerabilities" \in DOMAIN GroupAt(corr.docs, r)
        /\ r[3] <= Len(GroupAt(corr.docs, r).Vulnerabilities)}

\* The nested findings whose VulnerabilityID is the cveID of a catalog entry.
MatchRefs ==
    {r \in AllFindingRefs :
        /\ "VulnerabilityID" \in DOMAIN FindingAt(corr.docs, r)
        /\ FindingAt(corr.docs, r).VulnerabilityID \in CatalogCves}

Found == corr.response.correlated_vulnerabilities

\* C9: correlate() returns exactly one record for each nested finding whose
\* VulnerabilityID is the cveID of a catalog entry and none for another
\* finding, without de-duplicating by CVE; each record carries its finding's
\* severity and package name; total_matched_in_docker is the number of records.
C9_OneRecordPerMatch ==
    corr.pc = "done" =>
        /\ Len(Found) = Cardinality(MatchRefs)
        /\ Len(corr.refs) = Len(Found)
        /\ {corr.refs[n] : n \in 1..Len(corr.refs)} = MatchRefs
        /\ \A n \in 1..Len(Found) :
              LET vuln == FindingAt(corr.docs, corr.refs[n])
              IN  /\ Found[n].cveID = vuln.VulnerabilityID
                  /\ Found[n].severity = Get(vuln, "Severity", Unknown)
                  /\ Found[n].packageName = Get(vuln, "PkgName", Unknown)
        /\ corr.response.summary.total_matched_in_docker = Len(Found)

\* The call returned two records of one CVE, found in one finding group.
C9_Witness ==
    /\ corr.pc = "done"
    /\ \E m, n \in 1..Len(Found) :
          /\ m # n
          /\ Found[m].cveID = Found[n].cveID
          /\ Found[m].packageName # Found[n].packageName
          /\ corr.refs[m][1] = corr.refs[n][1] /\ corr.refs[m][2] = corr.refs[n][2]

\* C10: percentage_matched is 0 when the KEV identifier list is empty; else it
\* is the matched findings over the KEV entries of that list, as a percentage
\* to the nearest hundredth (never over the findings); and the records are at
\* least as many as the distinct CVEs matched.
C10_MatchRate ==
    corr.pc = "done" =>
        LET s == corr.response.summary
            kev == Cardinality({j \in 1..Len(corr.kev) : "cveID" \in DOMAIN corr.kev[j]})
            matched == Cardinality(MatchRefs)
            d == s.percentage_matched * kev - matched * 10000
        IN  /\ kev = 0 => s.percentage_matched = 0
            /\ kev > 0 => (2 * d <= kev /\ -2 * d <= kev)
            /\ Len(Found) >= Cardinality({Found[n].cveID : n \in 1..Len(Found)})

\* The call returned with more records than distinct CVEs, and with fewer
\* records than findings visited.
C10_Witness ==
    /\ corr.pc = "done"
    /\ Len(Found) > Cardinality({Found[n].cveID : n \in 1..Len(Found)})
    /\ Len(Found) < Cardinality(AllFindingRefs)
    /\ corr.response.summary.percentage_matched > 10000

(***************************************************************************)
(* DatabaseScannerResource (database_scanner_resource.py): the course of a *)
(* scan call.  What the patterns find in a table that was read is given    *)
(* with the table, as a number of findings.                                *)
(***************************************************************************)
MaxScans == 2       \* scan calls issued one after the other

\* SYSTEM_DATABASES
SYSTEM_DATABASES ==
    [mysql |-> {"information_schema", "mysql", "performance_schema", "sys"},
     postgresql |-> {"information_schema", "pg_catalog", "pg_toast"}]

\* Database servers a credential may point at: the databases the server
\* lists, and the tables of each with the findings their rows hold.
ServerMenu ==
    [mysql |->
        { [databases |-> <<"information_schema", "shop", "hr">>,
           tables |-> [information_schema |-> <<>>,
                       shop |-> << [name |-> "users", findings |-> 2],
                                   [name |-> "orders", findings |-> 1] >>,
                       hr |-> << [name |-> "staff", findings |-> 1] >>]],
          [databases |-> <<"mysql", "sys">>,
           tables |-> [mysql |-> <<>>, sys |-> <<>>]] },
     postgresql |->
        { [databases |-> <<"postgres", "shop">>,
           tables |-> [postgres |-> <<>>,
                       shop |-> << [name |-> "users", findings |-> 2],
                                   [name |-> "orders", findings |-> 1] >>]],
          [databases |-> <<>>, tables |-> <<>>] }]

\* No credential of the requested name is stored.
NoCredential == [db_type |-> "none"]

\* The stored credential a request names, with the server it points at;
\* database is credential.database (None is ""), password is what
\* get_password() returns (None is "").
Credentials ==
    {NoCredential, [db_type |-> "oracle"]} \cup
    UNION {{[db_type |-> kind, database |-> db, password |-> pw, server |-> srv] :
                db \in {"", "shop", "gone"}, pw \in {"", "pw"}, srv \in ServerMenu[kind]} :
           kind \in {"mysql", "postgresql"}}

\* The tables of the target whose SELECT raises while a call scans it.
UnreadableTables == {{}, {"users"}, {"orders"}, {"users", "orders"}}

ScanRequests ==
    {[credential_name |-> n, credential |-> c, unreadable |-> u] :
        n \in {"", "cred"}, c \in Credentials, u \in UnreadableTables}

\* [x for x in q if x not in S]
RECURSIVE Without(_, _)
Without(q, S) ==
    IF q = <<>> THEN <<>>
    ELSE (IF Head(q) \in S THEN <<>> ELSE <<Head(q)>>) \o Without(Tail(q), S)

\* The findings appended for a table that was read.
TableFindings(database, table) ==
    [n \in 1..table.findings |-> [database |-> database, table |-> table.name, n |-> n]]

\* The call returns (body, status); the locals are gone, the connections and
\* the stored scans stay as they are.  The request of the call, the tables
\* (objects) it read and the number of connections it opened are kept on
\* record.
ScanReturn(s, status, findings_count) ==
    [ScanIdle EXCEPT !.conns = s.conns, !.stored = s.stored, !.calls = s.calls,
                     !.read = s.read, !.request = s.request, !.opened = s.opened,
                     !.s3_stored = s.s3_stored,
                     !.response = [status |-> status, findings_count |-> findings_count]]

\* post without the password check of the scan.
S_PostNoPasswordCheck ==
    /\ scan.pc = "idle"
    /\ scan.calls < MaxScans
    /\ \E req \in ScanRequests :
          LET c == req.credential
              s == [scan EXCEPT !.calls = @ + 1, !.read = {}, !.opened = 0,
                                !.request = req]
          IN  scan' =
                IF req.credential_name = "" THEN ScanReturn(s, 400, 0)
                ELSE IF c = NoCredential THEN ScanReturn(s, 404, 0)
                ELSE IF c.db_type \notin {"mysql", "postgresql"} THEN ScanReturn(s, 400, 0)
                ELSE [s EXCEPT !.response = <<>>,
                               !.pc = IF c.db_type = "mysql" THEN "m_connect" ELSE "p_connect1"]
    /\ UNCHANGED <<rebuildVars, builder, corr, calc, refresh>>

\* post, lines 88-110, and the password check of the scan (lines 139, 256).
S_Post ==
    /\ scan.pc = "idle"
    /\ scan.calls < MaxScans
    /\ \E req \in ScanRequests :
          LET c == req.credential
              s == [scan EXCEPT !.calls = @ + 1, !.read = {}, !.opened = 0,
                                !.request = req]
          IN  scan' =
                IF req.credential_name = "" THEN ScanReturn(s, 400, 0)
                ELSE IF c = NoCredential THEN ScanReturn(s, 404, 0)
                ELSE IF c.db_type \notin {"mysql", "postgresql"} THEN ScanReturn(s, 400, 0)
                ELSE IF c.password = "" THEN ScanReturn(s, 500, 0)
                ELSE [s EXCEPT !.response = <<>>,
                               !.pc = IF c.db_type = "mysql" THEN "m_connect" ELSE "p_connect1"]
    /\ UNCHANGED <<rebuildVars, builder, corr, calc, refresh>>

\* The statements at which an error leaves the scan: it is logged, re-raised
\* (lines 248-250, 397-399) and post returns 500 (lines 124-126).
RaisingPcs == {"m_connect", "m_dbs", "m_tables", "p_connect2", "p_tables", "store"}

S_Raise ==
    /\ scan.pc \in RaisingPcs
    /\ scan' = ScanReturn(scan, 500, 0)
    /\ UNCHANGED <<rebuildVars, builder, corr, calc, refresh>>

\* Line 148
M_Connect ==
    /\ scan.pc = "m_connect"
    /\ scan' = [scan EXCEPT !.conns = @ + 1, !.opened = @ + 1, !.pc = "m_dbs"]
    /\ UNCHANGED <<rebuildVars, builder, corr, calc, refresh>>

\* Lines 152-166: SHOW DATABASES, and the choice of the databases to scan.
M_Databases ==
    /\ scan.pc = "m_dbs"
    /\ LET c == scan.request.credential
           listed == Without(c.server.databases, SYSTEM_DATABASES.mysql)
           user_databases ==
              IF c.database # "" /\ InList(c.database, listed) THEN <<c.database>> ELSE listed
       IN  scan' = [scan EXCEPT !.dbs = user_databases,
                                !.pc = IF user_databases = <<>> THEN "m_close" ELSE "m_tables"]
    /\ UNCHANGED <<rebuildVars, builder, corr, calc, refresh>>

\* After the last table of a database the loop of line 169 goes on.
NextDatabase(s) ==
    [s EXCEPT !.dbs = Tail(@), !.tables = <<>>,
              !.pc = IF Len(s.dbs) = 1 THEN "m_close" ELSE "m_tables"]

\* After a table the loop of line 176 goes on.
NextTable(s) ==
    IF Len(s.tables) = 1 THEN NextDatabase(s) ELSE [s EXCEPT !.tables = Tail(@)]

\* Lines 171-173
M_Tables ==
    /\ scan.pc = "m_tables"
    /\ LET db_name == Head(scan.dbs)
           tables == scan.request.credential.server.tables[db_name]
           s == [scan EXCEPT !.target_database = db_name, !.tables = tables, !.pc = "m_select"]
       IN  scan' = IF tables = <<>> THEN NextDatabase(s) ELSE s
    /\ UNCHANGED <<rebuildVars, builder, corr, calc, refresh>>

\* Lines 180-240: the table is read and its findings are appended.
M_Select ==
    /\ scan.pc = "m_select"
    /\ Head(scan.tables).name \notin scan.request.unreadable
    /\ LET table == Head(scan.tables)
       IN  scan' = NextTable(
              [scan EXCEPT !.results = @ \o TableFindings(scan.target_database, table),
                           !.read = @ \cup {<<scan.target_database, table.name>>}])
    /\ UNCHANGED <<rebuildVars, builder, corr, calc, refresh>>

\* Lines 183-185: the read raises; the table is logged and passed over.
M_SelectFails ==
    /\ scan.pc = "m_select"
    /\ Head(scan.tables).name \in scan.request.unreadable
    /\ scan' = NextTable(scan)
    /\ UNCHANGED <<rebuildVars, builder, corr, calc, refresh>>

\* Lines 243-246
M_Close ==
    /\ scan.pc = "m_close"
    /\ scan' = [scan EXCEPT !.conns = @ - 1, !.pc = "store"]
    /\ UNCHANGED <<rebuildVars, builder, corr, calc, refresh>>

\* Line 277: the connection to the 'postgres' database.
P_Connect1 ==
    /\ scan.pc = "p_connect1"
    /\ scan' = [scan EXCEPT !.conns = @ + 1, !.opened = @ + 1, !.pc = "p_list"]
    /\ UNCHANGED <<rebuildVars, builder, corr, calc, refresh>>

\* Lines 302-304: the connection cannot be made; the credential's database
\* is tried directly.
P_Connect1Fails ==
    /\ scan.pc = "p_connect1"
    /\ scan' = [scan EXCEPT !.target_database = scan.request.credential.database,
                            !.pc = "p_connect2"]
    /\ UNCHANGED <<rebuildVars, builder, corr, calc, refresh>>

\* Lines 281-300: the databases are listed, the first connection is closed
\* and the database to scan is chosen; without one the scan returns [].
P_List ==
    /\ scan.pc = "p_list"
    /\ LET c == scan.request.credential
           available_databases == Without(c.server.databases, SYSTEM_DATABASES.postgresql)
           s == [scan EXCEPT !.conns = @ - 1]
       IN  scan' =
             IF InList(c.database, available_databases)
               THEN [s EXCEPT !.target_database = c.database, !.pc = "p_connect2"]
             ELSE IF available_databases # <<>>
               THEN [s EXCEPT !.target_database = available_databases[1], !.pc = "p_connect2"]
             ELSE [s EXCEPT !.pc = "store"]
    /\ UNCHANGED <<rebuildVars, builder, corr, calc, refresh>>

\* Lines 302-304: listing raises; the first connection is left as it is.
P_ListFails ==
    /\ scan.pc = "p_list"
    /\ scan' = [scan EXCEPT !.target_database = scan.request.credential.database,
                            !.pc = "p_connect2"]
    /\ UNCHANGED <<rebuildVars, builder, corr, calc, refresh>>

\* Line 316: the connection to the chosen database, if the server has it.
P_Connect2 ==
    /\ scan.pc = "p_connect2"
    /\ InList(scan.target_database, scan.request.credential.server.databases)
    /\ scan' = [scan EXCEPT !.conns = @ + 1, !.opened = @ + 1, !.pc = "p_tables"]
    /\ UNCHANGED <<rebuildVars, builder, corr, calc, refresh>>

\* Lines 321-322
P_Tables ==
    /\ scan.pc = "p_tables"
    /\ LET tables == scan.request.credential.server.tables[scan.target_database]
       IN  scan' = [scan EXCEPT !.tables = tables,
                                !.pc = IF tables = <<>> THEN "p_close" ELSE "p_select"]
    /\ UNCHANGED <<rebuildVars, builder, corr, calc, refresh>>

\* After a table the loop of line 326 goes on.
NextPgTable(s) ==
    [s EXCEPT !.tables = Tail(@), !.pc = IF Len(s.tables) = 1 THEN "p_close" ELSE "p_select"]

\* Lines 329-389: the table is read in the connection's transaction, which no
\* earlier failure has aborted.
P_Select ==
    /\ scan.pc = "p_select"
    /\ ~scan.aborted
    /\ Head(scan.tables).name \notin scan.request.unreadable
    /\ LET table == Head(scan.tables)
       IN  scan' = NextPgTable(
              [scan EXCEPT !.results = @ \o TableFindings(scan.target_database, table),
                           !.read = @ \cup {<<scan.target_database, table.name>>}])
    /\ UNCHANGED <<rebuildVars, builder, corr, calc, refresh>>

\* Lines 332-334: the read raises and the table is passed over.  The failed
\* statement aborts the connection's transaction, which is never rolled back.
P_SelectFails ==
    /\ scan.pc = "p_select"
    /\ scan.aborted \/ Head(scan.tables).name \in scan.request.unreadable
    /\ scan' = NextPgTable([scan EXCEPT !.aborted = TRUE])
    /\ UNCHANGED <<rebuildVars, builder, corr, calc, refresh>>

\* Lines 392-395
P_Close ==
    /\ scan.pc = "p_close"
    /\ scan' = [scan EXCEPT !.conns = @ - 1, !.pc = "store"]
    /\ UNCHANGED <<rebuildVars, builder, corr, calc, refresh>>

\* store_scan_results
ScanDocument(credential_name, scan_results) ==
    [credential_name |-> credential_name,
     findings |-> scan_results,
     total_findings |-> Len(scan_results),
     scanned_databases |-> {scan_results[i].database : i \in 1..Len(scan_results)},
     scanned_tables |-> {scan_results[i].table : i \in 1..Len(scan_results)}]

\* A scan that keeps only its latest ScanRun.
S_StoreReplaces ==
    /\ scan.pc = "store"
    /\ scan' = ScanReturn(
          [scan EXCEPT !.stored = <<ScanDocument(scan.request.credential_name, scan.results)>>],
          200, Len(scan.results))
    /\ UNCHANGED <<rebuildVars, builder, corr, calc, refresh>>

\* post, lines 112-122: the scan is stored and the call returns 200.
S_Store ==
    /\ scan.pc = "store"
    /\ scan' = ScanReturn(
          [scan EXCEPT !.stored = Append(@, ScanDocument(scan.request.credential_name,
                                                          scan.results))],
          200, Len(scan.results))
    /\ UNCHANGED <<rebuildVars, builder, corr, calc, refresh>>

(***************************************************************************)
(* S3ScannerResource (s3_scanner_resource.py): the course of a blob scan.  *)
(***************************************************************************)
\* Buckets a request may name: the objects list_objects_v2 returns (none: the
\* response has no "Contents"), each with the findings its text holds.
BucketMenu ==
    { [contents |-> <<>>],
      [contents |-> << [key |-> "a.csv", findings |-> 2],
                       [key |-> "b.txt", findings |-> 1] >>] }

\* The objects of the bucket whose read raises while a call scans it.
UnreadableObjects == {{}, {"a.csv"}, {"b.txt"}, {"a.csv", "b.txt"}}

BlobRequests ==
    {[bucket_name |-> n, bucket |-> b, unreadable |-> u] :
        n \in {"", "bucket"}, b \in BucketMenu, u \in UnreadableObjects}

\* The findings appended for an object that was read.
ObjectFindings(obj) ==
    [n \in 1..obj.findings |-> [file_name |-> obj.key, n |-> n]]

\* post, lines 82-93
S3_Post ==
    /\ scan.pc = "idle"
    /\ scan.calls < MaxScans
    /\ \E req \in BlobRequests :
          LET s == [scan EXCEPT !.calls = @ + 1, !.read = {}, !.opened = 0,
                                !.request = req]
          IN  scan' = IF req.bucket_name = "" THEN ScanReturn(s, 400, 0)
                      ELSE [s EXCEPT !.response = <<>>, !.pc = "s3_list"]
    /\ UNCHANGED <<rebuildVars, builder, corr, calc, refresh>>

\* Lines 110-112: listing the bucket or storing the scan raises.
S3_Raise ==
    /\ scan.pc \in {"s3_list", "s3_store"}
    /\ scan' = ScanReturn(scan, 500, 0)
    /\ UNCHANGED <<rebuildVars, builder, corr, calc, refresh>>

\* Lines 122-127: without "Contents" the scan returns [].
S3_List ==
    /\ scan.pc = "s3_list"
    /\ LET contents == scan.request.bucket.contents
       IN  scan' = [scan EXCEPT !.objects = contents,
                                !.pc = IF contents = <<>> THEN "s3_store" ELSE "s3_object"]
    /\ UNCHANGED <<rebuildVars, builder, corr, calc, refresh>>

\* After an object the loop of line 129 goes on.
NextObject(s) ==
    [s EXCEPT !.objects = Tail(@), !.pc = IF Len(s.objects) = 1 THEN "s3_store" ELSE "s3_object"]

\* Lines 133-176: the object is read and its findings are appended.
S3_Object ==
    /\ scan.pc = "s3_object"
    /\ Head(scan.objects).key \notin scan.request.unreadable
    /\ LET obj == Head(scan.objects)
       IN  scan' = NextObject(
              [scan EXCEPT !.results = @ \o ObjectFindings(obj),
                           !.read = @ \cup {<<scan.request.bucket_name, obj.key>>}])
    /\ UNCHANGED <<rebuildVars, builder, corr, calc, refresh>>

\* Lines 178-179: reading the object raises; it is logged and passed over.
S3_ObjectFails ==
    /\ scan.pc = "s3_object"
    /\ Head(scan.objects).key \in scan.request.unreadable
    /\ scan' = NextObject(scan)
    /\ UNCHANGED <<rebuildVars, builder, corr, calc, refresh>>

\* store_scan_results of the blob scan
BlobScanDocument(bucket_name, scan_results) ==
    LET scanned_files == {scan_results[i].file_name : i \in 1..Len(scan_results)}
    IN  [bucket_name |-> bucket_name,
         findings |-> scan_results,
         total_findings |-> Len(scan_results),
         scanned_files |-> scanned_files,
         total_files_scanned |-> Cardinality(scanned_files)]

\* post, lines 95-108: the scan is stored and the call returns 200.
S3_Store ==
    /\ scan.pc = "s3_store"
    /\ scan' = ScanReturn(
          [scan EXCEPT !.s3_stored = Append(@, BlobScanDocument(scan.request.bucket_name,
                                                                 scan.results))],
          200, Len(scan.results))
    /\ UNCHANGED <<rebuildVars, builder, corr, calc, refresh>>

InitScan ==
    /\ NoRebuild
    /\ builder = BuilderIdle
    /\ corr = CorrIdle
    /\ scan = ScanIdle

MySqlSteps ==
    M_Connect \/ M_Databases \/ M_Tables \/ M_Select \/ M_SelectFails \/ M_Close

PostgreSqlSteps ==
    \/ P_Connect1 \/ P_Connect1Fails \/ P_List \/ P_ListFails \/ P_Connect2
    \/ P_Tables \/ P_Select \/ P_SelectFails \/ P_Close

BlobSteps == S3_Post \/ S3_List \/ S3_Object \/ S3_ObjectFails \/ S3_Raise \/ S3_Store

NextScan == S_Post \/ MySqlSteps \/ PostgreSqlSteps \/ S_Raise \/ S_Store \/ BlobSteps

SpecScan == InitScan /\ [][NextScan]_vars

(***************************************************************************)
(* Properties of the scan.                                                 *)
(***************************************************************************)
\* C5: every connection a scan of a MySQL or PostgreSQL target opened is
\* closed when the scan call has returned, on every exit path.
C5_ConnectionsClosed == scan.pc = "idle" => scan.conns = 0

(***************************************************************************)
(* Further properties of the correlation.                                  *)
(***************************************************************************)
\* The image identifier of the scan document a finding is nested in.
ImageOf(r) == Get(corr.docs[r[1]], "image_uri", Unknown)

\* C11: summary.affected_images is the number of distinct container images
\* (scan documents, by their image identifier) with at least one correlated
\* finding.
C11_AffectedImages ==
    corr.pc = "done" =>
        corr.response.summary.affected_images = Cardinality({ImageOf(r) : r \in MatchRefs})

(***************************************************************************)
(* The correlation and the scans of one caller.                            *)
(***************************************************************************)
\* Either the caller only correlates, over any two collections; or it
\* correlates and scans, in any interleaving, over one catalog and one scan
\* collection.
InitReadOnly ==
    /\ NoRebuild
    /\ builder = BuilderIdle
    /\ \/ /\ scan = [ScanIdle EXCEPT !.calls = MaxScans]
          /\ \E catalog \in Collections(CorrKevMenu), docs \in Collections(CorrDocMenu) :
                corr = [CorrIdle EXCEPT !.kev = catalog, !.docs = docs]
       \/ /\ scan = ScanIdle
          /\ \E catalog \in Collections(KevDocMenu), docs \in Collections(DockerDocMenu) :
                /\ Len(catalog) = MaxDocs /\ Len(docs) = 1
                /\ \A i \in 1..Len(catalog) : "cveID" \in DOMAIN catalog[i]
                /\ "vulnerabilities" \in DOMAIN docs[1]
                /\ "Vulnerabilities" \in DOMAIN docs[1].vulnerabilities[1]
                /\ corr = [CorrIdle EXCEPT !.kev = catalog, !.docs = docs]

NextReadOnly ==
    \/ C_LoadKev \/ C_LoadDocs \/ C_Skip \/ C_Match \/ C_Summary
    \/ S_Post \/ MySqlSteps \/ PostgreSqlSteps \/ S_Raise \/ S_Store \/ BlobSteps

SpecReadOnly == InitReadOnly /\ [][NextReadOnly]_vars

\* The ScanRuns of both scan collections.
ScanRuns == scan.stored \o scan.s3_stored

\* q is p, or p with one document appended.
AppendedAtMostOne(p, q) ==
    /\ Len(q) \in {Len(p), Len(p) + 1}
    /\ SubSeq(q, 1, Len(p)) = p

\* C12: correlate() writes nothing: the KEV catalog, the scan collection, the
\* graph and the ScanRuns are after each of its steps what they were before.
\* A scan call (tabular or blob) leaves the graph and the two collections
\* alone and changes the ScanRuns only by inserting one document, as it
\* returns; a ScanRun stored earlier is never updated or deleted.
C12_ReadOnlyAppendOnly ==
    [][ /\ corr.kev' = corr.kev /\ corr.docs' = corr.docs
        /\ nodes' = nodes /\ edges' = edges /\ source' = source
        /\ corr' # corr => ScanRuns' = ScanRuns
        /\ AppendedAtMostOne(scan.stored, scan.stored')
        /\ AppendedAtMostOne(scan.s3_stored, scan.s3_stored')
        /\ ScanRuns' # ScanRuns =>
              /\ Len(ScanRuns') = Len(ScanRuns) + 1
              /\ scan.pc # "idle" /\ scan.pc' = "idle" ]_vars

\* The correlation has returned records, and a tabular scan and a blob scan
\* with findings have each stored their ScanRun.
C12_Witness ==
    /\ corr.pc = "done" /\ Len(Found) > 0
    /\ Len(scan.stored) = 1 /\ scan.stored[1].total_findings > 0
    /\ Len(scan.s3_stored) = 1 /\ scan.s3_stored[1].total_findings > 0

(***************************************************************************)
(* clean_value on its own (neo4j_asset_resource.py).                       *)
(***************************************************************************)
MaxItems == 2       \* items of a nested list

\* Values of every kind clean_value tells apart.
Scalars ==
    {VStr(s) : s \in {"", "abc", "AbC", "Web", "CVE-1"}}
    \cup {VInt(n) : n \in {-1, 0, 42}}
    \cup {VFloat("1.5"), VBool(TRUE), VBool(FALSE), VNull,
          VDateTime(Now), VObjectId(OidHex(1)), VOther("1E+2")}

Nested ==
    {VList(q) : q \in UNION {[1..n -> Scalars] : n \in 0..MaxItems}}
    \cup {VDict([Name |-> a]) : a \in Scalars}
    \cup {VDict([Name |-> a, when |-> VList(<<b>>)]) : a \in {VStr("AbC"), VInt(42)}, b \in Scalars}

CleanArguments == Scalars \cup Nested

\* x = clean_value(argument)
Clean_Once ==
    /\ calc.pc = "argument" /\ calc.op = "clean_value"
    /\ calc' = [calc EXCEPT !.pc = "once", !.once = clean_value(calc.x)]
    /\ UNCHANGED <<rebuildVars, builder, corr, scan, refresh>>

\* clean_value(x)
Clean_Twice ==
    /\ calc.pc = "once" /\ calc.op = "clean_value"
    /\ calc' = [calc EXCEPT !.pc = "twice", !.twice = clean_value(calc.once)]
    /\ UNCHANGED <<rebuildVars, builder, corr, scan, refresh>>

InitClean ==
    /\ InitStores
    /\ refresh = RefreshIdle
    /\ budget = [p \in Procs |-> 0]
    /\ builder = BuilderIdle
    /\ corr = CorrIdle
    /\ scan = ScanIdle
    /\ \E x \in CleanArguments :
          calc = [pc |-> "argument", op |-> "clean_value", x |-> x,
                  once |-> VNull, twice |-> VNull]

NextClean == Clean_Once \/ Clean_Twice

SpecClean == InitClean /\ [][NextClean]_vars

\* C13: clean_value(clean_value(x)) = clean_value(x) for x of every kind.
C13_Idempotent == calc.pc = "twice" => calc.twice = calc.once

\* The strings of the model that hold no upper-case character.
IsLowerCase(s) == \A i \in 1..Len(LowerTable) : LowerTable[i][1] = s => LowerTable[i][2] = s

\* C14: a number, a boolean and null come back unchanged in type and value;
\* a string comes back as a string, lower-cased.
C14_ScalarsPreserved ==
    calc.pc \in {"once", "twice"} =>
        /\ calc.x.t \in {"int", "float", "bool", "null"} => calc.once = calc.x
        /\ calc.x.t = "str" =>
              /\ calc.once.t = "str"
              /\ IsLowerCase(calc.once.v)
              /\ Upper(calc.once.v) = Upper(calc.x.v)

\* clean_value has returned 42 for 42.
C14_Witness ==
    /\ calc.pc = "once"
    /\ calc.x = VInt(42)
    /\ calc.once = VInt(42)

(***************************************************************************)
(* mask_pii_data (database_scanner_resource.py; s3_scanner_resource.py     *)
(* holds the same function).  A string is the sequence of its characters.  *)
(***************************************************************************)
MaxValueLen == 5    \* length of the values built from MaskAlphabet

MaskAlphabet == {"a", "1", "@", "*"}

JohnDoe ==
    <<"j", "o", "h", "n", ".", "d", "o", "e", "@",
      "e", "x", "a", "m", "p", "l", "e", ".", "c", "o", "m">>

CardNumber ==
    <<"4", "1", "1", "1", "1", "1", "1", "1", "1", "1", "1", "1", "1", "1", "1", "1">>

SocialSecurity == <<"1", "2", "3", "-", "4", "5", "-", "6", "7", "8", "9">>

Prefixes(s) == {SubSeq(s, 1, n) : n \in 0..Len(s)}

Suffixes(s) == {SubSeq(s, n, Len(s)) : n \in 1..Len(s)}

\* The values a masked column can hold.
MaskValues ==
    UNION {[1..n -> MaskAlphabet] : n \in 0..MaxValueLen}
    \cup Prefixes(JohnDoe) \cup Suffixes(JohnDoe)
    \cup Prefixes(CardNumber) \cup Prefixes(SocialSecurity)

\* The keys of extracted_patterns that mask_pii_data names, two that it does
\* not name, and the second name it accepts for an SSN.
PiiTypes ==
    {"Email Address", "Credit Card Number", "Phone Number", "SSN",
     "Social Security Number", "Bank Account Number", "Passport Number",
     "Date of Birth"}

NamedPiiTypes ==
    {"Email Address", "Credit Card Number", "Phone Number", "SSN",
     "Social Security Number", "Bank Account Number"}

\* '*' * n
Stars(n) == [i \in 1..n |-> "*"]

\* value[-n:], for n > 0
Last(value, n) ==
    IF Len(value) <= n THEN value ELSE SubSeq(value, Len(value) - n + 1, Len(value))

\* The positions of '@' in value; value.split('@') has one part more.
Ats(value) == {i \in 1..Len(value) : value[i] = "@"}

Returned(s) == [error |-> "", v |-> s]

IndexError == [error |-> "IndexError", v |-> <<>>]

\* masked_username and the return of the 'Email Address' branch; username[0]
\* of an empty username raises.  Keeps the first two characters.
MaskEmailFirstTwo(username, domain) ==
    IF username = <<>> THEN IndexError
    ELSE Returned(SubSeq(username, 1, IF Len(username) < 2 THEN 1 ELSE 2)
                  \o Stars(IF Len(username) < 2 THEN 0 ELSE Len(username) - 2)
                  \o <<"@">> \o domain)

\* masked_username and the return of the 'Email Address' branch; username[0]
\* of an empty username raises.
MaskEmail(username, domain) ==
    IF username = <<>> THEN IndexError
    ELSE Returned(<<username[1]>> \o Stars(Len(username) - 1) \o <<"@">> \o domain)

\* The default rule with its middle branch keeping the first character only.
MaskDefaultFirstOnly(value) ==
    IF Len(value) <= 4 THEN Returned(Stars(Len(value)))
    ELSE IF Len(value) <= 8
         THEN Returned(SubSeq(value, 1, 1) \o Stars(Len(value) - 2))
    ELSE Returned(SubSeq(value, 1, 2) \o Stars(Len(value) - 4) \o Last(value, 2))

\* Default masking for other PII types
MaskDefault(value) ==
    IF Len(value) <= 4 THEN Returned(Stars(Len(value)))
    ELSE IF Len(value) <= 8
         THEN Returned(SubSeq(value, 1, 1) \o Stars(Len(value) - 2) \o Last(value, 1))
    ELSE Returned(SubSeq(value, 1, 2) \o Stars(Len(value) - 4) \o Last(value, 2))

mask_pii_data(value, pii_type) ==
    IF value = <<>> THEN Returned(<<>>)
    ELSE IF pii_type = "Email Address" /\ Cardinality(Ats(value)) = 1
         THEN LET at == CHOOSE i \in Ats(value) : TRUE
              IN  MaskEmail(SubSeq(value, 1, at - 1), SubSeq(value, at + 1, Len(value)))
    ELSE IF pii_type = "Credit Card Number" /\ Len(value) >= 4
         THEN Returned(Stars(Len(value) - 4) \o Last(value, 4))
    ELSE IF pii_type = "Phone Number" /\ Len(value) >= 2
         THEN Returned(Stars(Len(value) - 2) \o Last(value, 2))
    ELSE IF pii_type \in {"SSN", "Social Security Number"} /\ Len(value) >= 4
         THEN Returned(<<"*", "*", "*", "-", "*", "*", "-">> \o Last(value, 4))
    ELSE IF pii_type = "Bank Account Number" /\ Len(value) >= 4
         THEN Returned(Stars(Len(value) - 4) \o Last(value, 4))
    ELSE MaskDefault(value)

\* value = mask_pii_data(value, pii_type)
Mask_Call ==
    /\ calc.pc = "argument" /\ calc.op = "mask_pii_data"
    /\ calc' = [calc EXCEPT !.pc = "returned",
                            !.result = mask_pii_data(calc.x, calc.pii_type)]
    /\ UNCHANGED <<rebuildVars, builder, corr, scan, refresh>>

InitMask ==
    /\ InitStores
    /\ refresh = RefreshIdle
    /\ budget = [p \in Procs |-> 0]
    /\ builder = BuilderIdle
    /\ corr = CorrIdle
    /\ scan = ScanIdle
    /\ \E x \in MaskValues, pii_type \in PiiTypes :
          calc = [pc |-> "argument", op |-> "mask_pii_data", x |-> x,
                  pii_type |-> pii_type, result |-> Returned(<<>>)]

NextMask == Mask_Call

SpecMask == InitMask /\ [][NextMask]_vars

\* C15: for every category and every value longer than 4 characters,
\* mask_pii_data does not return the value as it was given.
C15_NeverVerbatim ==
    (calc.pc = "returned" /\ Len(calc.x) > 4) =>
        ~(calc.result.error = "" /\ calc.result.v = calc.x)

\* C16: for 'Email Address' and a value with exactly one '@' and a non-empty
\* local part, the result is the first character of the local part, one '*'
\* for each other character of the local part, then '@' and the domain as
\* given; "john.doe@example.com" gives "j*******@example.com".
C16_EmailShape ==
    (/\ calc.pc = "returned"
     /\ calc.pii_type = "Email Address"
     /\ Cardinality(Ats(calc.x)) = 1
     /\ calc.x[1] # "@") =>
        LET at == CHOOSE i \in Ats(calc.x) : TRUE
            out == calc.result.v
        IN  /\ calc.result.error = ""
            /\ Len(out) = Len(calc.x)
            /\ out[1] = calc.x[1]
            /\ \A i \in 2..(at - 1) : out[i] = "*"
            /\ \A i \in at..Len(calc.x) : out[i] = calc.x[i]
            /\ calc.x = JohnDoe =>
                  out = <<"j", "*", "*", "*", "*", "*", "*", "*", "@",
                          "e", "x", "a", "m", "p", "l", "e", ".", "c", "o", "m">>

\* mask_pii_data has returned for "john.doe@example.com".
C16_Witness ==
    /\ calc.pc = "returned"
    /\ calc.pii_type = "Email Address"
    /\ calc.x = JohnDoe
    /\ calc.result.v[2] = "*"

\* C17: for a category of the default rule and a non-empty value, the result
\* is as long as the value: all '*' up to length 4, the first and the last
\* character kept from length 5 to 8, the first two and the last two kept
\* above 8, every other character a '*'.
C17_DefaultRule ==
    (/\ calc.pc = "returned"
     /\ calc.pii_type \notin NamedPiiTypes
     /\ calc.x # <<>>) =>
        LET n == Len(calc.x)
            out == calc.result.v
            keep == IF n <= 4 THEN 0 ELSE IF n <= 8 THEN 1 ELSE 2
        IN  /\ calc.result.error = ""
            /\ Len(out) = n
            /\ \A i \in 1..n :
                  out[i] = IF i <= keep \/ i > n - keep THEN calc.x[i] ELSE "*"

\* The default rule has masked a value of six characters.
C17_Witness ==
    /\ calc.pc = "returned"
    /\ calc.pii_type = "Passport Number"
    /\ calc.x = SubSeq(JohnDoe, 1, 6)
    /\ calc.result.v = <<"j", "*", "*", "*", "*", "d">>

\* A request post rejects before the scan connects: no credential name, no
\* credential of that name, or a password that get_password() cannot give.
Rejected(req) ==
    \/ req.credential_name = ""
    \/ req.credential = NoCredential
    \/ IF req.credential.db_type \in {"mysql", "postgresql"}
       THEN req.credential.password = "" ELSE FALSE

\* C18: a tabular scan whose credential name is missing, names no stored
\* credential, or whose password cannot be decrypted returns an error
\* status, opens no connection and stores no ScanRun.
C18_RejectedBeforeConnect ==
    [][(/\ scan.pc = "idle"
        /\ scan'.calls = scan.calls + 1
        /\ "credential_name" \in DOMAIN scan'.request
        /\ Rejected(scan'.request)) =>
           /\ scan'.pc = "idle"
           /\ scan'.response.status \in {400, 404, 500}
           /\ scan'.opened = 0
           /\ scan'.conns = scan.conns
           /\ scan'.stored = scan.stored]_vars

\* After a scan that stored its ScanRun, a request whose password cannot be
\* decrypted has been answered.
C18_Witness ==
    /\ scan.pc = "idle"
    /\ scan.calls = 2
    /\ Len(scan.stored) = 1
    /\ scan.request.credential_name = "cred"
    /\ scan.request.credential.db_type = "mysql"
    /\ scan.request.credential.password = ""
    /\ scan.response.status = 500
    /\ scan.opened = 0

\* The request passes the checks of post and its target holds nothing to
\* scan: a server without a user database, or a bucket without an object.
EmptyTargetList(req) ==
    IF "bucket_name" \in DOMAIN req
      THEN req.bucket_name # "" /\ req.bucket.contents = <<>>
    ELSE IF "credential_name" \in DOMAIN req
      THEN /\ ~Rejected(req)
           /\ req.credential.db_type \in {"mysql", "postgresql"}
           /\ Without(req.credential.server.databases,
                      SYSTEM_DATABASES[req.credential.db_type]) = <<>>
    ELSE FALSE

\* C19: a scan whose target list is empty ends with an error status and
\* stores no ScanRun.
C19_EmptyTargetAborts ==
    [][(/\ scan.pc # "idle"
        /\ scan'.pc = "idle"
        /\ EmptyTargetList(scan.request)) =>
           /\ scan'.response.status # 200
           /\ scan'.stored = scan.stored
           /\ scan'.s3_stored = scan.s3_stored]_vars

\* The findings of the tables of q outside unreadable, in the order of q.
RECURSIVE ReadableFindings(_, _, _)
ReadableFindings(database, q, unreadable) ==
    IF q = <<>> THEN <<>>
    ELSE (IF Head(q).name \in unreadable THEN <<>> ELSE TableFindings(database, Head(q)))
         \o ReadableFindings(database, Tail(q), unreadable)

\* The findings of the objects of q outside unreadable, in the order of q.
RECURSIVE ReadableObjectFindings(_, _)
ReadableObjectFindings(q, unreadable) ==
    IF q = <<>> THEN <<>>
    ELSE (IF Head(q).key \in unreadable THEN <<>> ELSE ObjectFindings(Head(q)))
         \o ReadableObjectFindings(Tail(q), unreadable)

\* The findings of the databases of q, one after the other.
RECURSIVE DatabasesFindings(_, _, _)
DatabasesFindings(server, q, unreadable) ==
    IF q = <<>> THEN <<>>
    ELSE ReadableFindings(Head(q), server.tables[Head(q)], unreadable)
         \o DatabasesFindings(server, Tail(q), unreadable)

\* What the tables (objects) of the scanned target that read without an
\* error hold: for MySQL over the scanned databases, for PostgreSQL over the
\* database s.target_database, for a bucket over its objects.
FindingsOfReadable(s) ==
    LET req == s.request
    IN  IF "bucket_name" \in DOMAIN req
          THEN ReadableObjectFindings(req.bucket.contents, req.unreadable)
        ELSE IF req.credential.db_type = "mysql"
          THEN LET listed == Without(req.credential.server.databases, SYSTEM_DATABASES.mysql)
               IN  DatabasesFindings(req.credential.server,
                      IF InList(req.credential.database, listed)
                        THEN <<req.credential.database>> ELSE listed,
                      req.unreadable)
        ELSE IF s.target_database = "" THEN <<>>
        ELSE ReadableFindings(s.target_database,
                              req.credential.server.tables[s.target_database],
                              req.unreadable)

\* C20: a table or an object that fails to read does not end the call, and
\* when the scan has passed over its tables (objects) the findings are
\* exactly those of the ones that read without an error.
C20_FailuresIsolated ==
    [][ /\ scan.pc \in {"m_select", "p_select", "s3_object"} => scan'.pc # "idle"
        /\ (scan.pc # scan'.pc /\ scan'.pc \in {"store", "s3_store"}) =>
              scan'.results = FindingsOfReadable(scan') ]_vars

(***************************************************************************)
(* Properties of the graph the rebuilds leave.                             *)
(***************************************************************************)
\* Every call so far has returned, with status 200.
AllCompleted == Idle /\ \A i \in 1..Len(log) : log[i].status = 200

\* C22: after any sequence of completed rebuilds every node has an id
\* property, and no two nodes of one label have the same id.
C22_IdUniqueInLabel ==
    AllCompleted =>
        /\ \A n \in nodes : "id" \in DOMAIN n.props
        /\ \A n, m \in nodes :
              (n.label = m.label /\ n.props["id"] = m.props["id"]) => n = m

\* prepare_node_label(label), on the resource types of the model
\* ('' stands for a missing or empty type).
prepare_node_label(label) ==
    CASE label = "" -> "unknown"
      [] label = "EC2" -> "ec2"
      [] label = "S3 Bucket" -> "s3_bucket"
      [] OTHER -> Lower(label)

\* The labels the rebuilds may create nodes under: the fixed labels of the
\* families, and for the cloud assets the label derived from the resource
\* type of a document of the collection.
DerivedLabels ==
    {"dockerimage", "vulnerability", "knownexploitedvulnerability", "s3compliancesummary"}
    \cup {prepare_node_label(Get(Docs("asset")[i], "resource_type", VStr("")).v) :
             i \in 1..Len(Docs("asset"))}

\* C23: every node carries a label derived from its type by lower-casing and
\* replacing the characters that are not alphanumeric with '_' ('unknown'
\* without a type), and every property key of a node is lower-case.
C23_LabelsAndKeysNormalised ==
    \A n \in nodes :
        /\ n.label \in DerivedLabels
        /\ \A k \in DOMAIN n.props : Lower(k) = k

\* The last call was a rebuild of the container-image family and returned 200.
DockerRebuilt ==
    /\ Idle
    /\ log # <<>>
    /\ log[Len(log)].fam = "docker"
    /\ log[Len(log)].status = 200

\* The nested records of document i whose Severity is level, whatever its case.
WithSeverity(i, level) ==
    {r \in VulnRefs : r[1] = i /\ "Severity" \in DOMAIN VulnAt(r)
                      /\ Upper(VulnAt(r).Severity.v) = level}

\* The image node(s) of document i.
ImageNodes(i) ==
    {n \in HasLabel("dockerimage") :
        HasProp(n, "id", VStr(Lower(Docs("docker")[i]["_id"].v)))}

\* C24: after a successful rebuild of the container-image family every
\* document has its image node, also a document without vulnerabilities
\* field; the node's total_vulnerabilities is the number of nested records of
\* the document, its high/medium/low counters are the numbers of records of
\* that Severity compared case-insensitively, and high + medium + low <= total.
C24_ImageCounters ==
    DockerRebuilt =>
        /\ \A n \in HasLabel("dockerimage") :
              \E i \in 1..Len(Docs("docker")) : n \in ImageNodes(i)
        /\ \A i \in 1..Len(Docs("docker")) :
              /\ Cardinality(ImageNodes(i)) = 1
              /\ \A n \in ImageNodes(i) :
                    /\ n.props["total_vulnerabilities"] =
                          VInt(Cardinality({r \in VulnRefs : r[1] = i}))
                    /\ n.props["high_vulnerabilities"] =
                          VInt(Cardinality(WithSeverity(i, "HIGH")))
                    /\ n.props["medium_vulnerabilities"] =
                          VInt(Cardinality(WithSeverity(i, "MEDIUM")))
                    /\ n.props["low_vulnerabilities"] =
                          VInt(Cardinality(WithSeverity(i, "LOW")))
                    /\ n.props["high_vulnerabilities"].v + n.props["medium_vulnerabilities"].v
                          + n.props["low_vulnerabilities"].v <= n.props["total_vulnerabilities"].v

\* A rebuild has counted a document with a 'Medium' record and one without
\* the vulnerabilities field.
C24_Witness ==
    /\ DockerRebuilt
    /\ Len(Docs("docker")) = 2
    /\ "vulnerabilities" \notin DOMAIN Docs("docker")[1]
    /\ \E n \in ImageNodes(1) : n.props["total_vulnerabilities"] = VInt(0)
    /\ \E n \in ImageNodes(2) : n.props["medium_vulnerabilities"] = VInt(1)

\* The has_vulnerability relationships that end at node v.
Incoming(v) == {e \in EdgesOf("has_vulnerability") : e.to = v.nid}

\* Document i holds a nested record that node v was created from.
HoldsRecordOf(i, v) ==
    \E r \in VulnRefs :
        /\ r[1] = i
        /\ \A k \in DOMAIN prepare_node_properties(VulnAt(r)) \ {"id"} :
              HasProp(v, k, prepare_node_properties(VulnAt(r))[k])

\* Every call so far was a rebuild of the container-image family that
\* returned 200, one after the other.
DockerRebuildsOnly ==
    /\ AllCompleted
    /\ log # <<>>
    /\ \A i \in 1..Len(log) : log[i].fam = "docker"

\* C28: after completed rebuilds of the container-image family that do not
\* overlap, every vulnerability node has exactly one incoming
\* has_vulnerability relationship, which starts at the image node of the
\* document that holds the record; no vulnerability node is without its image.
C28_OneParentImage ==
    DockerRebuildsOnly =>
        \A v \in HasLabel("vulnerability") :
            /\ Cardinality(Incoming(v)) = 1
            /\ \A e \in Incoming(v) :
                  \E i \in 1..Len(Docs("docker")) :
                      /\ HoldsRecordOf(i, v)
                      /\ \E n \in ImageNodes(i) : n.nid = e.from

\* Two rebuilds in sequence over two documents with nested records.
C28_Witness ==
    /\ DockerRebuildsOnly
    /\ Len(log) = 2
    /\ Len(Docs("docker")) = 2
    /\ Cardinality(HasLabel("vulnerability")) = 3
    /\ Cardinality(EdgesOf("has_vulnerability")) = 3

\* Two rebuilds of the container-image family, started by two callers, have
\* both returned 200.
TwoDockerRebuildsDone ==
    /\ Idle
    /\ Len(log) = 2
    /\ log[1].p # log[2].p
    /\ \A i \in 1..2 : log[i].fam = "docker" /\ log[i].status = 200

\* C27: once two concurrent rebuilds of the container-image family over an
\* unchanged collection of N documents have both completed, the graph holds
\* exactly N dockerimage nodes, and each has as many has_vulnerability
\* relationships as its document has nested records.
C27_ConcurrentRebuilds ==
    TwoDockerRebuildsDone =>
        /\ Cardinality(HasLabel("dockerimage")) = Len(Docs("docker"))
        /\ \A i \in 1..Len(Docs("docker")) :
              \A n \in ImageNodes(i) :
                  Cardinality({e \in EdgesOf("has_vulnerability") : e.from = n.nid})
                     = Cardinality({r \in VulnRefs : r[1] = i})

(***************************************************************************)
(* KEV refresh: KnownExploitedVulnerabilitiesResource.post (kev_resource.py)*)
(* and store_in_mongodb (utils/cisa_vulnerabilities_fetcher.py).  The      *)
(* catalog collection is corr.kev, the collection the correlation reads.   *)
(***************************************************************************)
KevCap == 100       \* sorted(...)[:100]
MaxExtra == 2       \* entries a feed may hold beyond KevCap

\* The text 'YYYY-MM-DD' of day n; texts of this form compare as their days do.
VDate(n) == [t |-> "date", v |-> n]

FeedShapes == {"ascending", "descending", "pairs"}

\* data["vulnerabilities"] of a feed of M entries: by position, the dateAdded
\* rises, falls, or is shared by two neighbours.
Feed(M, shape) ==
    SubSeq([i \in 1..M |->
              [cveID |-> VStr("CVE-" \o ToString(i)),
               dateAdded |-> VDate(CASE shape = "ascending" -> i
                                     [] shape = "descending" -> M - i
                                     [] OTHER -> (i + 1) \div 2)]], 1, M)

\* The place of q[i] in a sort that puts the smallest dateAdded first.
RankAscending(q, i) ==
    1 + Cardinality({j \in 1..Len(q) :
            \/ q[j].dateAdded.v < q[i].dateAdded.v
            \/ q[j].dateAdded.v = q[i].dateAdded.v /\ j < i})

\* The place of q[i] in sorted(q, key=lambda x: x["dateAdded"], reverse=True):
\* entries of equal dateAdded keep their order.
Rank(q, i) ==
    1 + Cardinality({j \in 1..Len(q) :
            \/ q[j].dateAdded.v > q[i].dateAdded.v
            \/ q[j].dateAdded.v = q[i].dateAdded.v /\ j < i})

\* Lines 39-43: the latest KevCap entries, stamped with the import time.
Latest(q) ==
    LET place == SubSeq([i \in 1..Len(q) |-> Rank(q, i)], 1, Len(q))
        kept == IF Len(q) < KevCap THEN Len(q) ELSE KevCap
    IN  SubSeq([k \in 1..kept |->
                  q[CHOOSE i \in 1..Len(q) : place[i] = k]
                  @@ [imported_at |-> VDateTime(Now)]], 1, kept)

\* The _ids of the documents of a collection.
IdsOf(coll) == {coll[i]["_id"] : i \in 1..Len(coll)}

\* post, lines 50-57, and store_in_mongodb, lines 28-43: the feed is fetched
\* and cut down to its latest entries; an empty feed stores nothing.
R_Post(p) ==
    /\ refresh.w[p].pc = "idle"
    /\ refresh.budget[p] > 0
    /\ \E M \in refresh.sizes, shape \in FeedShapes :
          LET data == Feed(M, shape)
          IN  refresh' = [refresh EXCEPT
                            !.budget[p] = @ - 1,
                            !.w[p] = [pc |-> IF M = 0 THEN "count" ELSE "delete",
                                      vulnerabilities |-> Latest(data),
                                      raised |-> FALSE,
                                      feed |-> data,
                                      before |-> IdsOf(corr.kev)]]
    /\ UNCHANGED <<rebuildVars, builder, corr, scan, calc>>

\* fetch_cisa_data returns None: post answers 500.
R_FetchFails(p) ==
    /\ refresh.w[p].pc = "idle"
    /\ refresh.budget[p] > 0
    /\ refresh' = [refresh EXCEPT
                     !.budget[p] = @ - 1,
                     !.log = Append(@, [p |-> p, status |-> 500, count |-> 0,
                                        raised |-> FALSE, feed |-> <<>>, before |-> {}])]
    /\ UNCHANGED <<rebuildVars, builder, corr, scan, calc>>

\* Line 46: collection.delete_many({})
R_Delete(p) ==
    /\ refresh.w[p].pc = "delete"
    /\ corr' = [corr EXCEPT !.kev = <<>>]
    /\ refresh' = [refresh EXCEPT !.w[p].pc = "insert"]
    /\ UNCHANGED <<rebuildVars, builder, scan, calc>>

\* Line 47: collection.insert_many(vulnerabilities); the store gives every
\* document its _id.
R_Insert(p) ==
    /\ refresh.w[p].pc = "insert"
    /\ LET docs == refresh.w[p].vulnerabilities
       IN  /\ corr' = [corr EXCEPT !.kev = @ \o
                         [k \in 1..Len(docs) |->
                            ("_id" :> VObjectId(OidHex(refresh.issued + k))) @@ docs[k]]]
           /\ refresh' = [refresh EXCEPT !.w[p].pc = "count", !.issued = @ + Len(docs)]
    /\ UNCHANGED <<rebuildVars, builder, scan, calc>>

\* Lines 50-51: a statement of the store raises; the error is printed and
\* store_in_mongodb returns.
R_StoreRaises(p) ==
    /\ refresh.w[p].pc \in {"delete", "insert"}
    /\ refresh' = [refresh EXCEPT !.w[p].pc = "count", !.w[p].raised = TRUE]
    /\ UNCHANGED <<rebuildVars, builder, corr, scan, calc>>

\* post, lines 59-65: count_documents({}) and the answer.
R_Count(p) ==
    /\ refresh.w[p].pc = "count"
    /\ refresh' = [refresh EXCEPT
                     !.w[p] = RefreshIdle.w[p],
                     !.log = Append(@, [p |-> p, status |-> 200, count |-> Len(corr.kev),
                                        raised |-> refresh.w[p].raised,
                                        feed |-> refresh.w[p].feed,
                                        before |-> refresh.w[p].before])]
    /\ UNCHANGED <<rebuildVars, builder, corr, scan, calc>>

RefreshSteps(p) ==
    \/ R_Post(p) \/ R_FetchFails(p) \/ R_Delete(p) \/ R_Insert(p)
    \/ R_StoreRaises(p) \/ R_Count(p)

\* The sizes of the feeds: a few entries, or about KevCap.
FeedSizes == (0..MaxDocs) \cup (KevCap..(KevCap + MaxExtra))

\* The catalog is empty; one caller issues two refreshes one after the other,
\* or two callers one refresh each.
InitRefresh ==
    /\ InitStores
    /\ budget = [p \in Procs |-> 0]
    /\ calc = CalcIdle
    /\ builder = BuilderIdle
    /\ scan = ScanIdle
    /\ corr = CorrIdle
    /\ \E b \in {[p \in Procs |-> IF p = 1 THEN MaxCalls ELSE 0], [p \in Procs |-> 1]} :
          refresh = [RefreshIdle EXCEPT !.budget = b, !.sizes = FeedSizes]

NextRefresh == \E p \in Procs : RefreshSteps(p)

SpecRefresh == InitRefresh /\ [][NextRefresh]_vars

(***************************************************************************)
(* Properties of the KEV refresh.                                          *)
(***************************************************************************)
LastRefresh == refresh.log[Len(refresh.log)]

\* Every refresh so far was issued by the one caller, one after the other;
\* the last one fetched a feed of at least one entry and no statement of its
\* store_in_mongodb raised.
SequentialRefreshDone ==
    /\ \A p \in Procs : refresh.w[p].pc = "idle"
    /\ refresh.log # <<>>
    /\ \A i \in 1..Len(refresh.log) : refresh.log[i].p = 1
    /\ refresh.budget[2] = 0
    /\ LastRefresh.status = 200
    /\ ~LastRefresh.raised
    /\ Len(LastRefresh.feed) >= 1

\* The entries of the last feed that the catalog holds a document of.
KeptEntries ==
    {i \in 1..Len(LastRefresh.feed) :
        \E k \in 1..Len(corr.kev) :
            /\ corr.kev[k].cveID = LastRefresh.feed[i].cveID
            /\ corr.kev[k].dateAdded = LastRefresh.feed[i].dateAdded}

\* C21: after a refresh for a feed of M >= 1 entries the catalog holds
\* exactly min(M, 100) documents, one for each of the entries of the feed
\* with the greatest dateAdded, and no document it held before the refresh.
C21_FullReplaceCapped ==
    SequentialRefreshDone =>
        LET M == Len(LastRefresh.feed)
        IN  /\ Len(corr.kev) = IF M < 100 THEN M ELSE 100
            /\ Cardinality(KeptEntries) = Len(corr.kev)
            /\ Cardinality(IdsOf(corr.kev)) = Len(corr.kev)
            /\ \A i \in KeptEntries, j \in (1..M) \ KeptEntries :
                  LastRefresh.feed[i].dateAdded.v >= LastRefresh.feed[j].dateAdded.v
            /\ IdsOf(corr.kev) \cap LastRefresh.before = {}

\* A second refresh has replaced a catalog with the latest 100 of 102 entries.
C21_Witness ==
    /\ SequentialRefreshDone
    /\ Len(refresh.log) = 2
    /\ Len(LastRefresh.feed) = 102
    /\ LastRefresh.before # {}
    /\ Len(corr.kev) = 100

\* C30: under every interleaving of concurrent refreshes, and in every
\* intermediate state of a refresh, the catalog holds at most 100 entries.
C30_CatalogCapped == Len(corr.kev) <= 100

(***************************************************************************)
(* A correlation while the catalog is refreshed.                           *)
(***************************************************************************)
\* The catalog is empty and the scan collection holds one document; one
\* caller refreshes the catalog with feeds of a few entries while another
\* calls correlate().
InitRefreshCorrelate ==
    /\ InitStores
    /\ budget = [p \in Procs |-> 0]
    /\ calc = CalcIdle
    /\ builder = BuilderIdle
    /\ scan = ScanIdle
    /\ refresh = [RefreshIdle EXCEPT
                    !.budget = [p \in Procs |-> IF p = 1 THEN MaxCalls ELSE 0],
                    !.sizes = 0..MaxDocs]
    /\ \E docs \in Collections(CorrDocMenu) :
          /\ Len(docs) = 1
          /\ corr = [CorrIdle EXCEPT !.docs = docs]

NextRefreshCorrelate ==
    \/ \E p \in Procs : RefreshSteps(p)
    \/ C_LoadKev \/ C_LoadDocs \/ C_Skip \/ C_Match \/ C_Summary

SpecRefreshCorrelate == InitRefreshCorrelate /\ [][NextRefreshCorrelate]_vars

\* The nested findings whose VulnerabilityID is in the list of KEV
\* identifiers the call loaded.
LoadedMatchRefs ==
    {r \in AllFindingRefs :
        /\ "VulnerabilityID" \in DOMAIN FindingAt(corr.docs, r)
        /\ InList(FindingAt(corr.docs, r).VulnerabilityID, corr.kev_cve_ids)}

\* C29: a correlate() that runs while the catalog is refreshed answers from
\* one version of the catalog: total_kev_vulnerabilities counts the loaded
\* KEV identifiers, and every finding whose identifier is among them is in
\* the result, none being dropped.
C29_OneCatalogVersion ==
    corr.pc = "done" =>
        /\ corr.response.summary.total_kev_vulnerabilities = Len(corr.kev_cve_ids)
        /\ {corr.refs[n] : n \in 1..Len(corr.refs)} = LoadedMatchRefs
        /\ Len(Found) = Cardinality(LoadedMatchRefs)

(***************************************************************************)
(* The findings of one table and of one object: the loops over columns,    *)
(* rows and patterns of scan_mysql_database / scan_postgresql_database     *)
(* (database_scanner_resource.py) and of scan_s3_bucket                    *)
(* (s3_scanner_resource.py).                                               *)
(***************************************************************************)
MaxRows == 12       \* rows of a scanned table
MaxMatches == 6     \* distinct matches of a pattern in an object

\* The keys of extracted_patterns the values of the model can match, in the
\* order of the dict.
PatternKeys ==
    <<"Email Address", "Phone Number", "Credit Card Number", "SSN",
      "Passport Number", "Bank Account Number">>

Hello == <<"h", "e", "l", "l", "o">>

\* "e@example.com"
ShortEmail == SubSeq(JohnDoe, 8, 20)

\* "@example.com"
NoLocalPart == SubSeq(JohnDoe, 9, 20)

\* re.search(extracted_patterns[pii_type], text), for the texts of the model.
Matches(text) ==
    CASE text = JohnDoe -> {"Email Address"}
      [] text = ShortEmail -> {"Email Address"}
      [] text = CardNumber -> {"Credit Card Number", "Bank Account Number"}
      [] text = SocialSecurity -> {"SSN"}
      [] OTHER -> {}

\* The values of the cells; <<>> is None, which the scan reads as ''.
CellMenu == <<JohnDoe, Hello, CardNumber, <<>>, SocialSecurity, ShortEmail, NoLocalPart>>

\* The column names of the scanned tables.
ColumnMenu ==
    { <<"id", "email">>,
      <<"note", "user_password", "comment">>,
      <<"Phone", "ssn_number", "note">> }

\* A table of n rows: the cell of row r and column c is taken from CellMenu,
\* going on by stride from row to row.
Table(columns, n, shift, stride) ==
    [column_names |-> columns,
     rows |-> [r \in 1..n |->
                 [c \in 1..Len(columns) |->
                     CellMenu[((shift + r * stride + c) % Len(CellMenu)) + 1]]]]

Tables ==
    {Table(columns, n, shift, stride) :
        columns \in ColumnMenu, n \in 0..MaxRows, shift \in 0..1, stride \in 0..2}

\* The sensitive terms (lines 222-224) that occur in col_name.lower().
TermsIn(col_name) ==
    CASE col_name = "email" -> {"email"}
      [] col_name = "user_password" -> {"password"}
      [] col_name = "Phone" -> {"phone"}
      [] col_name = "ssn_number" -> {"ssn"}
      [] OTHER -> {}

\* Lines 221-225: whether the value of col_name is masked in a sample row of
\* a finding of column.  Masks the column of the finding only.
MaskedColumnOnlyTrigger(col_name, column) == col_name = column

\* Lines 221-225: whether the value of col_name is masked in a sample row of
\* a finding of column.
MaskedColumn(col_name, column) == col_name = column \/ TermsIn(col_name) # {}

\* a_list[:n]
FirstN(q, n) == SubSeq(q, 1, IF Len(q) < n THEN Len(q) ELSE n)

\* pii_data[pii_type] of a column: the numbers, from 1, of the rows whose
\* value of the column matches the pattern.
RowNumbers(table, c, pii_type) ==
    SelectSeq([r \in 1..Len(table.rows) |-> r],
              LAMBDA r : pii_type \in Matches(table.rows[r][c]))

\* The keys of pii_data in the order they were inserted: by the first row
\* that matches, then by the order of the patterns.
FoundTypes(table, c) ==
    LET found == {k \in 1..Len(PatternKeys) : RowNumbers(table, c, PatternKeys[k]) # <<>>}
        key(k) == RowNumbers(table, c, PatternKeys[k])[1] * (Len(PatternKeys) + 1) + k
        place(k) == 1 + Cardinality({j \in found : key(j) < key(k)})
    IN  [i \in 1..Cardinality(found) |-> PatternKeys[CHOOSE k \in found : place(k) = i]]

\* row_data of one sample row (lines 214-227); a value whose masking raises is
\* kept as the error.
RowData(table, r, column, pii_type) ==
    [c \in 1..Len(table.column_names) |->
        IF MaskedColumn(table.column_names[c], column)
          THEN mask_pii_data(table.rows[r][c], pii_type)
          ELSE Returned(table.rows[r][c])]

\* Lines 206-240: the finding of a column and a category.  Keeps every row.
FindingAllRows(table, c, pii_type) ==
    LET row_numbers == RowNumbers(table, c, pii_type)
    IN  [column |-> table.column_names[c],
         pii_type |-> pii_type,
         row_count |-> Len(row_numbers),
         sample_rows |-> row_numbers,
         sample_data |-> [i \in 1..Len(FirstN(row_numbers, 5)) |->
                             RowData(table, row_numbers[i], table.column_names[c], pii_type)]]

\* Lines 206-240: the finding of a column and a category.
Finding(table, c, pii_type) ==
    LET row_numbers == RowNumbers(table, c, pii_type)
    IN  [column |-> table.column_names[c],
         pii_type |-> pii_type,
         row_count |-> Len(row_numbers),
         sample_rows |-> FirstN(row_numbers, 10),
         sample_data |-> [i \in 1..Len(FirstN(row_numbers, 5)) |->
                             RowData(table, row_numbers[i], table.column_names[c], pii_type)]]

\* Lines 190-240: the findings of a table, column after column.
ScanTable(table) ==
    Flatten([c \in 1..Len(table.column_names) |->
               [i \in 1..Len(FoundTypes(table, c)) |->
                   Finding(table, c, FoundTypes(table, c)[i])]])

\* An object of a bucket: per pattern, list(set(re.findall(pattern, text))).
Object(n, m) ==
    [key |-> "a.csv",
     unique_matches |->
        [k \in 1..Len(PatternKeys) |->
            IF PatternKeys[k] = "Email Address" THEN {SubSeq(JohnDoe, j, 20) : j \in 1..n}
            ELSE IF PatternKeys[k] = "Credit Card Number"
              THEN {SubSeq(CardNumber, 1, 12 + j) : j \in 1..m}
            ELSE {}]]

Objects == {Object(n, m) : n \in 0..MaxMatches, m \in 0..2}

\* unique_matches[:5], in each order a set can iterate.
SampledMatches(unique_matches) ==
    UNION {Orderings(S) : S \in {T \in SUBSET unique_matches :
              Cardinality(T) = IF Cardinality(unique_matches) < 5
                                 THEN Cardinality(unique_matches) ELSE 5}}

\* s3_scanner_resource.py, lines 148-176: the findings of an object for the
\* patterns from the k-th on, one sequence for each choice of samples.  A
\* match of a pattern is never a value whose masking raises.
RECURSIVE ScanObject(_, _)
ScanObject(obj, k) ==
    IF k > Len(PatternKeys) THEN {<<>>}
    ELSE IF obj.unique_matches[k] = {} THEN ScanObject(obj, k + 1)
    ELSE {<< [file_name |-> obj.key,
              pii_type |-> PatternKeys[k],
              count |-> Cardinality(obj.unique_matches[k]),
              sample_data |-> [i \in 1..Len(pick) |->
                                  mask_pii_data(pick[i], PatternKeys[k])]] >> \o rest :
          pick \in SampledMatches(obj.unique_matches[k]),
          rest \in ScanObject(obj, k + 1)}

\* results = scan_..._database(...): the findings of the table, or the
\* exception of a masking that raised, which leaves the scan without results.
Scan_Table ==
    /\ calc.pc = "argument" /\ calc.op = "scan_table"
    /\ LET results == ScanTable(calc.x)
           raised == \E i \in 1..Len(results) : \E r \in 1..Len(results[i].sample_data) :
                        \E c \in 1..Len(calc.x.column_names) :
                            results[i].sample_data[r][c].error # ""
       IN  calc' = [calc EXCEPT !.pc = "returned",
                                !.result = [raised |-> raised,
                                            results |-> IF raised THEN <<>> ELSE results]]
    /\ UNCHANGED <<rebuildVars, builder, corr, scan, refresh>>

\* results = scan_s3_bucket(...), for one object of the bucket.
Scan_Object ==
    /\ calc.pc = "argument" /\ calc.op = "scan_object"
    /\ \E results \in ScanObject(calc.x, 1) :
          calc' = [calc EXCEPT !.pc = "returned",
                               !.result = [raised |-> FALSE, results |-> results]]
    /\ UNCHANGED <<rebuildVars, builder, corr, scan, refresh>>

InitFindings ==
    /\ InitStores
    /\ refresh = RefreshIdle
    /\ budget = [p \in Procs |-> 0]
    /\ builder = BuilderIdle
    /\ corr = CorrIdle
    /\ scan = ScanIdle
    /\ \/ \E table \in Tables :
             calc = [pc |-> "argument", op |-> "scan_table", x |-> table,
                     result |-> [raised |-> FALSE, results |-> <<>>]]
       \/ \E obj \in Objects :
             calc = [pc |-> "argument", op |-> "scan_object", x |-> obj,
                     result |-> [raised |-> FALSE, results |-> <<>>]]

NextFindings == Scan_Table \/ Scan_Object

SpecFindings == InitFindings /\ [][NextFindings]_vars

\* C25: a scan of a table or of an object has at most one finding for a
\* location (column, or file) and a category, and each finding has at most
\* 10 sample row references and at most 5 sample values, however many rows
\* or matches there are.
C25_OneFindingBoundedSamples ==
    calc.pc = "returned" =>
        LET results == calc.result.results
            location(f) == IF calc.op = "scan_table" THEN f.column ELSE f.file_name
        IN  /\ \A i, j \in 1..Len(results) :
                  (location(results[i]) = location(results[j])
                   /\ results[i].pii_type = results[j].pii_type) => i = j
            /\ \A i \in 1..Len(results) :
                  /\ Len(results[i].sample_data) <= 5
                  /\ calc.op = "scan_table" => Len(results[i].sample_rows) <= 10

\* A table finding of more than 10 rows, with 10 row references and 5 values.
C25_Witness ==
    /\ calc.pc = "returned" /\ calc.op = "scan_table"
    /\ \E i \in 1..Len(calc.result.results) :
          /\ calc.result.results[i].row_count > 10
          /\ Len(calc.result.results[i].sample_rows) = 10
          /\ Len(calc.result.results[i].sample_data) = 5

\* The column names of the model that contain one of the keywords password,
\* secret, token, ssn, credit, account, phone, email, dob.
NamesKeyword(col_name) == col_name \in {"email", "user_password", "Phone", "ssn_number"}

\* C26: in every sample row of every finding of a table, the value of the
\* column of the finding and the value of every column whose name contains a
\* sensitive keyword are the result of mask_pii_data on the value of the
\* row, whether or not that column matched a pattern.
C26_SensitiveColumnsMasked ==
    (calc.pc = "returned" /\ calc.op = "scan_table") =>
        \A i \in 1..Len(calc.result.results) :
            LET f == calc.result.results[i]
            IN  \A r \in 1..Len(f.sample_data) : \A c \in 1..Len(calc.x.column_names) :
                    (calc.x.column_names[c] = f.column \/ NamesKeyword(calc.x.column_names[c]))
                    => f.sample_data[r][c] =
                          mask_pii_data(calc.x.rows[f.sample_rows[r]][c], f.pii_type)

\* A sample row with a column of a sensitive name that is not the column of
\* the finding, whose value matches no pattern and is stored masked.
C26_Witness ==
    /\ calc.pc = "returned" /\ calc.op = "scan_table"
    /\ \E i \in 1..Len(calc.result.results) :
          LET f == calc.result.results[i]
          IN  \E r \in 1..Len(f.sample_data) : \E c \in 1..Len(calc.x.column_names) :
                  /\ calc.x.column_names[c] # f.column
                  /\ NamesKeyword(calc.x.column_names[c])
                  /\ Matches(calc.x.rows[f.sample_rows[r]][c]) = {}
                  /\ Len(calc.x.rows[f.sample_rows[r]][c]) > 4
                  /\ f.sample_data[r][c].v # calc.x.rows[f.sample_rows[r]][c]

=============================================================================
